---- MODULE Spec2Model ----
(***************************************************************************)
(* Model of the python-dlt broker (dlt/dlt_broker.py and                   *)
(* dlt/dlt_broker_handlers.py): the context handler thread, the message    *)
(* dispatcher process, the callers of register / unregister / add_context  *)
(* and the channels that connect them.                                     *)
(***************************************************************************)
EXTENDS Integers, Sequences, FiniteSets, TLC

\* ------------------------------------------------------------------ bounds
\* Number of calls in one behaviour: the register, add_context and unregister
\* calls of all subscribers and the handle() calls of the dispatcher together.
MaxCalls == 4
\* The same in the runs with filter acks, where direct calls of
\* _recv_filter_set_ack count too.
MaxAckCalls == 3
\* Entries a multiprocessing.Queue() holds: none of the broker's queues is
\* given a maxsize, so each holds as many as the platform's semaphores count.
MaxQueue == 3
\* Frames written to the tracefile in one behaviour.
MaxDumped == 3
\* Segments (frames and runs of random bytes) written to the DLT file.
MaxFile == 4
\* Calls made on one ContinuousnessChecker.
MaxChecked == 3
\* Filter messages put on the filter queue directly.
MaxPuts == 3
\* The messages one call of the main loop reads.
MaxReads == 3
\* The largest microseconds and seconds fields of the storage headers read.
MaxMicro == 45
MaxSeconds == 1
\* Malformed frames one connection session brings when no tracefile is written.
MaxMalformed == 102
\* py_dlt_client_main_loop(): "if bad_messages > 100".
BadLimit == 100
\* _find_next_header(): "buf = fobj.read(1024)".
ChunkSize == 1024

\* ------------------------------------------------------------------ values
\* Python's None.  Ids are 4 byte strings, so no id equals this value.
None == "<None>"
\* handle(None): the argument the main loops pass when they only poll.
NoneMsg == [none |-> TRUE]
\* An optional filter list: Python's None, or a list of (apid, ctid) pairs.
NoFilters == [none |-> TRUE, list |-> <<>>]
Filters(list) == [none |-> FALSE, list |-> list]
\* context_map of the context handler: a queue id that is not a key, and the
\* entry of one that is (the queue is the one the id names).
NoEntry == [present |-> FALSE, filters |-> <<>>]
Entry(filters) == [present |-> TRUE, filters |-> filters]

\* id(queue) of the subscriber queues.
QueueIds == {"q1", "q2"}
\* id(queue) of the ack queues add_context makes.
AckIds == {"a1", "a2"}
\* The (apid, ctid, storage timestamp) of the messages the source delivers
\* ("" is the empty id); a message of any of them can come at any time.
SourceMessages == {<<"A", "C", 1>>, <<"B", "C", 2>>, <<"", "", 1>>}

\* The filter lists callers pass to register() and add_context(); they may
\* also pass None (filters omitted).
FilterLists ==
    { <<>>,
      << <<"A", "C">> >>,
      << <<"A", None>>, <<None, "C">> >> }

RegisterArgs == {NoFilters} \cup {Filters(f) : f \in FilterLists}
\* The arguments and messages of the runs of the whole broker.
PipelineArgs == {NoFilters, Filters(<< <<"A", None>>, <<None, "C">> >>)}
PipelineMessages == {<<"A", "C", 1>>, <<"", "", 1>>}
\* The arguments of add_context and the messages in the runs with filter acks.
AckArgs == {Filters(<< <<"A", "C">> >>)}
AckMessages == {<<"A", "C", 1>>}

Last(s) == s[Len(s)]

\* ------------------------------------------------------------------ state
VARIABLES
    source,            \* "socket": DLTMessageHandler, "file": DLTFileSpinner
    enable_dlt_time,   \* DLTBroker(enable_dlt_time=...): the time cell exists
    context_map,       \* DLTContextHandler.context_map: queue id -> filters
    filter_queue,      \* the filter control channel
    message_queue,     \* the message channel
    disp_context_map,  \* DLTMessageDispatcherBase.context_map, in dict order
    dlt_time,          \* DLTTimeValue.timestamp
    n_handled,         \* handle() calls so far
    d_msg,             \* handle(): its argument, the message
    seen_ts,           \* the storage timestamps of the messages handled so far
    d_pc,              \* position of the dispatcher inside handle()
    d_qids,            \* handle(): the queue ids still to enqueue
    c_pc,              \* position of DLTContextHandler.run
    c_item,            \* run(): the (queue, message) it is about to put
    c_dropped,         \* run(): n of the message of the entry dropped last, or 0
    sub_queue,         \* per subscriber queue: the messages put on it
    caller,            \* per subscriber: its thread calling register/unregister
    n_calls,           \* register, add_context, unregister, handle calls so far
    d_enq,             \* handle(): the queue ids enqueued for its message
    d_wrote,           \* handle(): whether the current call wrote the time cell
    enable_filter_set_ack,          \* DLTBroker.enable_filter_set_ack
    ignore_filter_set_ack_timeout,  \* DLTBroker.ignore_filter_set_ack_timeout
    filter_ack_queue,  \* the ack channel
    ack_context_map,   \* DLTFilterAckMessageHandler.context_map: its ack ids
    ack_queue,         \* per ack id: the content of the ack queue with that id
    a_pc,              \* position of DLTFilterAckMessageHandler.run
    a_item,            \* run(): the entry taken from the ack channel
    recv_call,         \* the last direct _recv_filter_set_ack() call
    stop_pc,           \* DLTBroker.stop(): 0 before the call, then the step it is at
    mp_stop_flag,      \* DLTBroker.mp_stop_flag, shared with the dispatcher
    stop_flag,         \* the stop_flag of the context and of the ack thread
    stop_reading_proc, \* the file reader's stop_reading_proc event
    stop_log,          \* the steps stop() has completed, in order
    tracefile,         \* DLTMessageHandler.tracefile is an open file (filename given)
    dumped,            \* what has been written to the tracefile
    connected,         \* the DLTClient's socket is connected
    k_pc,              \* DLTMessageHandler.run(): where the worker is
    bad_messages,      \* py_dlt_client_main_loop(): bad_messages
    k_msg,             \* py_dlt_client_main_loop(): msg
    k_res,             \* how py_dlt_client_main_loop() ended: its value or "raise"
    k_why,             \* what made py_dlt_client_main_loop() end the last time
    n_malformed,       \* malformed frames read since the last connect
    file,              \* the DLT file on disk: its segments, in order
    mtime,             \* os.stat(filename).st_mtime
    live_run,          \* cDLTFile.live_run
    f_pc,              \* cDLTFile.__iter__(): where the iteration is
    file_position,     \* cDLTFile.file_position, a byte offset
    cached_mtime,      \* __iter__(): cached_mtime
    cached_file_pos,   \* __iter__(): cached_file_pos
    corruption_check_try, \* __iter__(): corruption_check_try
    found_data,        \* __iter__(): found_data
    corrupt_msg_count, \* cDLTFile.corrupt_msg_count
    yielded,           \* the messages the iteration has yielded, in order
    polls_after_stop,  \* passes of the poll loop made with the stop event set
    written_after_stop,\* segments appended to the file with the stop event set
    chk_index,         \* ContinuousnessChecker._index
    chk_counter,       \* ContinuousnessChecker._counter: the key/mcnt pairs it holds
    chk_result,        \* the last __call__: "none" before any, "return" or "RuntimeError"
    chk_message,       \* the message of the last __call__
    chk_before,        \* the messages of the earlier calls, in order
    b_data,            \* a stored frame: its bytes
    b_sort,            \* what DLTMessage.extract_sort_data(b_data) returned
    b_msg,             \* the DLTMessage made by DLTMessage.from_bytes(b_data)
    b_out,             \* what b_msg.to_bytes() returned
    cmp_msg,           \* compare(): the message compare() was called on
    cmp_passed,        \* compare(): the dict the caller passed
    cmp_other,         \* compare(): the caller's dict after the call
    cmp_result,        \* compare(): what the call returned
    d_filter,          \* _process_filter_queue(): the filter message taken from the queue
    n_puts,            \* filter messages put on the filter queue directly
    g_pc,              \* generate_index(): its position
    g_index,           \* generate_index(): the ids of the frames indexed, in order
    k_log,             \* py_dlt_client_main_loop(): per message read, the calls of the callback with it (-1: skipped)
    k_limit,           \* py_dlt_client_main_loop(): the parameter limit, counted down
    st_prev,           \* storage_timestamp: the header read before and its timestamp
    st_cur             \* storage_timestamp: the header read last and its timestamp

vars == <<source, enable_dlt_time, context_map, filter_queue, message_queue,
          disp_context_map, dlt_time, n_handled, d_msg, seen_ts, d_pc, d_qids,
          c_pc, c_item, c_dropped, sub_queue, caller,
          n_calls, d_enq, d_wrote, enable_filter_set_ack,
          ignore_filter_set_ack_timeout, filter_ack_queue, ack_context_map,
          ack_queue, a_pc, a_item, recv_call, stop_pc, mp_stop_flag,
          stop_flag, stop_reading_proc, stop_log, tracefile, dumped,
          connected, k_pc, bad_messages, k_msg, k_res, k_why, n_malformed,
          file, mtime, live_run, f_pc, file_position, cached_mtime,
          cached_file_pos, corruption_check_try, found_data,
          corrupt_msg_count, yielded, polls_after_stop, written_after_stop,
          chk_index, chk_counter, chk_result, chk_message, chk_before,
          b_data, b_sort, b_msg, b_out,
          cmp_msg, cmp_passed, cmp_other, cmp_result,
          d_filter, n_puts,
          g_pc, g_index,
          k_log, k_limit,
          st_prev, st_cur>>

\* The calls one behaviour may make.
CallBudget == IF enable_filter_set_ack THEN MaxAckCalls ELSE MaxCalls

\* The broker's configuration.
cfgVars == <<source, enable_dlt_time, enable_filter_set_ack,
            ignore_filter_set_ack_timeout>>
\* The state of the helper objects used on single messages and files.
toolVars == <<chk_index, chk_counter, chk_result, chk_message, chk_before,
             b_data, b_sort, b_msg, b_out,
             cmp_msg, cmp_passed, cmp_other, cmp_result,
             d_filter, n_puts,
             g_pc, g_index,
             k_log, k_limit,
             st_prev, st_cur>>
\* The DLT file and the state of the iteration over it.
fileVars == <<file, mtime, live_run, f_pc, file_position, cached_mtime,
             cached_file_pos, corruption_check_try, found_data,
             corrupt_msg_count, yielded, polls_after_stop, written_after_stop>>
\* The state of the socket worker's receive loop.
sockVars == <<tracefile, dumped, connected, k_pc, bad_messages, k_msg, k_res,
             k_why, n_malformed>>
\* The state of DLTBroker.stop() and the events it sets.
stopVars == <<stop_pc, mp_stop_flag, stop_flag, stop_reading_proc, stop_log>>
\* What the broker's register/dispatch/deliver steps leave alone.
restVars == <<stopVars, sockVars, fileVars, toolVars>>
\* The state of the ack handler thread and its queues.
ackVars == <<filter_ack_queue, ack_context_map, ack_queue, a_pc, a_item,
            recv_call>>
\* The dispatcher's position inside handle().
handleVars == <<n_handled, d_msg, seen_ts, d_pc, d_qids, d_enq, d_wrote>>

\* ------------------------------------------------- DLTContextHandler (callers)
\* register(): "if filters is None: filters = [(None, None)]".
RegisterFilters(filters) ==
    IF filters.none THEN << <<None, None>> >> ELSE filters.list

\* A _make_send_filter_msg() that leaves the ack queue id out.
MakeSendFilterMsg_NoAck(queue_id, filters, is_register, context_filter_ack_queue) ==
    <<queue_id, filters, is_register>>

\* multiprocessing.Queue.full().
QueueFull(queue) == Len(queue) >= MaxQueue

\* A put() that does not wait for room in the queue.
PutReady_Always(queue) == TRUE

\* multiprocessing.Queue.put(): the caller is blocked while the queue is full.
PutReady(queue) == ~QueueFull(queue)

\* _make_send_filter_msg(): a 4-tuple when an ack queue is given, else a
\* 3-tuple.
MakeSendFilterMsg(queue_id, filters, is_register, context_filter_ack_queue) ==
    IF context_filter_ack_queue # None
    THEN <<queue_id, context_filter_ack_queue, filters, is_register>>
    ELSE <<queue_id, filters, is_register>>

\* A caller thread.  pc: its position; filters, ack: the locals of its call;
\* arg: the filters argument of the call (for unregister: the entry it found);
\* last: the call that returned last; sent: the filter messages the call
\* published; result: what its ack wait gave.
CallerAt(pc, arg, filters, ack, last) ==
    [pc |-> pc, arg |-> arg, filters |-> filters, ack |-> ack, last |-> last,
     sent |-> <<>>, result |-> "none"]
IdleCaller == CallerAt("idle", NoFilters, <<>>, None, "none")

\* Callers other than q and the rest of the state a call of q leaves alone.
callVars == <<cfgVars, handleVars, message_queue, disp_context_map, dlt_time,
              c_pc, c_item, c_dropped, sub_queue, filter_ack_queue, a_pc, a_item,
              recv_call>>

\* register() called on the context handler: the insertion into context_map
\* under the lock.
RegisterInsert(q, filters) ==
    /\ caller[q].pc = "idle"
    /\ n_calls < CallBudget
    /\ n_calls' = n_calls + 1
    /\ context_map' = [context_map EXCEPT ![q] = Entry(RegisterFilters(filters))]
    /\ caller' = [caller EXCEPT ![q] =
                    CallerAt("register_put", filters,
                             RegisterFilters(filters), None, "none")]
    /\ UNCHANGED <<restVars, callVars, filter_queue, ack_context_map, ack_queue>>

\* register(), second half: filter_queue.put(...) and the return; inside
\* add_context with acks enabled the caller goes on to wait for the ack.
RegisterPut(q) ==
    /\ caller[q].pc = "register_put"
    /\ PutReady(filter_queue)
    /\ LET msg == MakeSendFilterMsg(q, caller[q].filters, TRUE, caller[q].ack)
       IN /\ filter_queue' = Append(filter_queue, msg)
          /\ caller' = [caller EXCEPT
                ![q].pc = IF caller[q].ack # None THEN "ack_wait" ELSE "idle",
                ![q].last = IF caller[q].ack # None THEN "none" ELSE "register",
                ![q].sent = Append(@, msg)]
    /\ UNCHANGED <<restVars, callVars, context_map, ack_context_map, ack_queue,
                   n_calls>>

\* unregister(): "_, filters = self.context_map.get(queue_id, (None, None))".
UnregisterLookup(q) ==
    IF context_map[q].present THEN Filters(context_map[q].filters)
    ELSE NoFilters

\* unregister(): "if filters:" -- None and the empty list are both false.
UnregisterProceeds(filters) == ~filters.none /\ filters.list # <<>>

\* unregister() (remove_context): the lookup and, when it proceeds, the
\* deletion under the lock.
UnregisterRemove(q) ==
    /\ caller[q].pc = "idle"
    /\ n_calls < CallBudget
    /\ n_calls' = n_calls + 1
    /\ LET filters == UnregisterLookup(q)
       IN IF UnregisterProceeds(filters)
          THEN /\ context_map' = [context_map EXCEPT ![q] = NoEntry]
               /\ caller' = [caller EXCEPT ![q] =
                               CallerAt("unregister_put", filters,
                                        filters.list, None, "none")]
          ELSE /\ UNCHANGED context_map
               /\ caller' = [caller EXCEPT ![q] =
                               CallerAt("idle", filters, <<>>, None,
                                        "unregister")]
    /\ UNCHANGED <<restVars, callVars, filter_queue, ack_context_map, ack_queue>>

\* unregister(), second half: filter_queue.put(...) and the return.
UnregisterPut(q) ==
    /\ caller[q].pc = "unregister_put"
    /\ PutReady(filter_queue)
    /\ LET msg == MakeSendFilterMsg(q, caller[q].filters, FALSE, caller[q].ack)
       IN /\ filter_queue' = Append(filter_queue, msg)
          /\ caller' = [caller EXCEPT ![q].pc = "idle",
                                      ![q].last = "unregister",
                                      ![q].sent = Append(@, msg)]
    /\ UNCHANGED <<restVars, callVars, context_map, ack_context_map, ack_queue,
                   n_calls>>

\* ------------------------------------------------- DLTBroker.add_context
\* add_context(): "filters = filters or [(None, None)]".
AddContextFilters(filters) ==
    IF filters.none \/ filters.list = <<>> THEN << <<None, None>> >>
    ELSE filters.list

\* The ids a new ack queue can get: id() of any object that is not alive.
FreeAckIds == AckIds \ ({caller[p].ack : p \in QueueIds} \cup ack_context_map)

\* add_context().  Without acks it calls register() at once; with acks it
\* first makes an ack queue and registers it with the ack handler
\* (create_filter_ack_queue).
AddContext(q, filters) ==
    /\ caller[q].pc = "idle"
    /\ n_calls < CallBudget
    /\ n_calls' = n_calls + 1
    /\ IF enable_filter_set_ack
       THEN \E a \in FreeAckIds :
              /\ ack_context_map' = ack_context_map \cup {a}
              /\ ack_queue' = [ack_queue EXCEPT ![a] = <<>>]
              /\ caller' = [caller EXCEPT ![q] =
                              CallerAt("add_context_register", filters,
                                       AddContextFilters(filters), a,
                                       "none")]
              /\ UNCHANGED context_map
       ELSE /\ context_map' =
                   [context_map EXCEPT ![q] = Entry(AddContextFilters(filters))]
            /\ caller' = [caller EXCEPT ![q] =
                            CallerAt("register_put", filters,
                                     AddContextFilters(filters), None,
                                     "none")]
            /\ UNCHANGED <<ack_context_map, ack_queue>>
    /\ UNCHANGED <<restVars, callVars, filter_queue>>

\* add_context() with acks: the register() call, up to the insertion.
AddContextRegister(q) ==
    /\ caller[q].pc = "add_context_register"
    /\ context_map' = [context_map EXCEPT ![q] = Entry(caller[q].filters)]
    /\ caller' = [caller EXCEPT ![q].pc = "register_put"]
    /\ UNCHANGED <<restVars, callVars, filter_queue, ack_context_map, ack_queue,
                   n_calls>>

\* A _recv_filter_set_ack() that takes any ack for the required one.
RecvFilterSetAck_AnyResponse(queue, required_response) ==
    IF queue # <<>> THEN "True"
    ELSE (IF ignore_filter_set_ack_timeout THEN "None" ELSE "Empty")

\* _recv_filter_set_ack(): queue.get(timeout) gives the head of the queue, or
\* times out on an empty queue.  "True", "False" and "None" are the values
\* returned; "Empty" is the queue.Empty exception raised.
RecvFilterSetAck(queue, required_response) ==
    IF queue # <<>>
    THEN (IF Head(queue) # required_response THEN "False" ELSE "True")
    ELSE (IF ignore_filter_set_ack_timeout THEN "None" ELSE "Empty")

\* add_context(): "if not self._recv_filter_set_ack(context_filter_ack_queue, True)".
AddContextRecv(q) ==
    /\ caller[q].pc = "ack_wait"
    /\ LET a == caller[q].ack
       IN /\ caller' = [caller EXCEPT
                ![q].pc = "ack_exit",
                ![q].result = RecvFilterSetAck(ack_queue[a], TRUE)]
          /\ ack_queue' = [ack_queue EXCEPT
                ![a] = IF @ = <<>> THEN @ ELSE Tail(@)]
    /\ UNCHANGED <<restVars, callVars, context_map, filter_queue, ack_context_map,
                   n_calls>>

\* An add_context() that takes the registration back when the ack failed.
AddContextExit_Rollback(q) ==
    /\ caller[q].pc = "ack_exit"
    /\ ack_context_map' = ack_context_map \ {caller[q].ack}
    /\ ack_queue' = [ack_queue EXCEPT ![caller[q].ack] = <<>>]
    /\ context_map' = [context_map EXCEPT
          ![q] = IF caller[q].result = "True" THEN @ ELSE NoEntry]
    /\ caller' = [caller EXCEPT
          ![q].pc = "idle",
          ![q].ack = None,
          ![q].last = IF caller[q].result = "Empty" THEN "add_context_raised"
                      ELSE "add_context"]
    /\ UNCHANGED <<restVars, callVars, filter_queue, n_calls>>

\* add_context(): leaving the "with create_filter_ack_queue(...)" block, by
\* return or by the exception: the ack queue is unregistered and dropped.
AddContextExit(q) ==
    /\ caller[q].pc = "ack_exit"
    /\ ack_context_map' = ack_context_map \ {caller[q].ack}
    /\ ack_queue' = [ack_queue EXCEPT ![caller[q].ack] = <<>>]
    /\ caller' = [caller EXCEPT
          ![q].pc = "idle",
          ![q].ack = None,
          ![q].last = IF caller[q].result = "Empty" THEN "add_context_raised"
                      ELSE "add_context"]
    /\ UNCHANGED <<restVars, callVars, context_map, filter_queue, n_calls>>

\* _recv_filter_set_ack() called by itself on a queue holding `queue`.
RecvFilterSetAckCall(queue, required_response) ==
    /\ n_calls < CallBudget
    /\ n_calls' = n_calls + 1
    /\ recv_call' = [queue |-> queue, required_response |-> required_response,
                     result |-> RecvFilterSetAck(queue, required_response)]
    /\ UNCHANGED <<restVars, cfgVars, handleVars, context_map, filter_queue,
                   message_queue, disp_context_map, dlt_time, c_pc, c_item,
                   c_dropped, sub_queue, caller, filter_ack_queue, ack_context_map,
                   ack_queue, a_pc, a_item>>

\* ------------------------------------------------- DLTContextHandler.run
\* A lookup that takes the queue the id names without asking context_map.
RunLookup_Unchecked(queue_id) == queue_id

\* run(): "queue, _ = self.context_map.get(queue_id, (None, None))".
\* The result is the queue to put on, or None.
RunLookup(queue_id) ==
    IF context_map[queue_id].present THEN queue_id ELSE None

\* run(): "queue_id, message = self.message_queue.get_nowait()", then
\* "if message:" and the lookup in context_map, read without the lock.  An
\* entry whose queue is found is held for the put; any other is dropped.
RunGet ==
    /\ c_pc = "get"
    /\ message_queue # <<>>
    /\ message_queue' = Tail(message_queue)
    /\ LET queue_id == Head(message_queue)[1]
           message == Head(message_queue)[2]
       IN IF message # NoneMsg /\ RunLookup(queue_id) # None
          THEN /\ c_pc' = "put"
               /\ c_item' = <<RunLookup(queue_id), message>>
               /\ UNCHANGED c_dropped
          ELSE /\ c_pc' = "get"
               /\ c_item' = <<None, NoneMsg>>
               /\ c_dropped' = IF message = NoneMsg THEN c_dropped
                               ELSE message.n
    /\ UNCHANGED <<restVars, cfgVars, handleVars, context_map, filter_queue,
                   disp_context_map, dlt_time, sub_queue, caller, ackVars,
                   n_calls>>

\* A put at the front of the queue.
QueuePut_Front(queue, message) == <<message>> \o queue

\* queue.put(message) on a subscriber queue.
QueuePut(queue, message) == Append(queue, message)

\* run(): "queue.put(message)".
RunPut ==
    /\ c_pc = "put"
    /\ sub_queue' = [sub_queue EXCEPT ![c_item[1]] = QueuePut(@, c_item[2])]
    /\ c_pc' = "get"
    /\ c_item' = <<None, NoneMsg>>
    /\ UNCHANGED <<restVars, c_dropped, cfgVars, handleVars, context_map, filter_queue,
                   message_queue, disp_context_map, dlt_time, caller,
                   ackVars, n_calls>>

\* ------------------------------------------------- DLTMessageDispatcherBase
\* The dispatcher's context_map is a defaultdict(list); it is modelled as the
\* sequence of its (key, queue ids) items in dict (insertion) order.
HasKey(cm, key) == \E i \in 1..Len(cm) : cm[i].key = key
KeyPos(cm, key) == CHOOSE i \in 1..Len(cm) : cm[i].key = key
QueueIdsOf(cm, key) == IF HasKey(cm, key) THEN cm[KeyPos(cm, key)].qids ELSE <<>>
DelKey(cm, key) ==
    LET i == KeyPos(cm, key)
    IN SubSeq(cm, 1, i - 1) \o SubSeq(cm, i + 1, Len(cm))

\* list.remove(x): drops the first occurrence of x (x is in the list).
ListRemove(list, x) ==
    LET i == CHOOSE j \in 1..Len(list) :
                 list[j] = x /\ \A k \in 1..(j - 1) : list[k] # x
    IN SubSeq(list, 1, i - 1) \o SubSeq(list, i + 1, Len(list))
InList(list, x) == \E j \in 1..Len(list) : list[j] = x

\* "self.context_map[apid_ctid].append(queue_id)".
AppendQueueId(cm, key, queue_id) ==
    IF HasKey(cm, key)
    THEN [cm EXCEPT ![KeyPos(cm, key)].qids = Append(@, queue_id)]
    ELSE Append(cm, [key |-> key, qids |-> <<queue_id>>])

\* _process_filter_queue(), add branch: one append per filter, in order.
RECURSIVE AddFilters(_, _, _)
AddFilters(cm, filters, queue_id) ==
    IF filters = <<>> THEN cm
    ELSE AddFilters(AppendQueueId(cm, Head(filters), queue_id),
                    Tail(filters), queue_id)

\* _process_filter_queue(), remove branch.  Reading a missing key of the
\* defaultdict creates it with an empty list; list.remove() of an id that is
\* not in the list raises ValueError, which ends the loop over the filters.
RECURSIVE RemoveFilters(_, _, _)
RemoveFilters(cm, filters, queue_id) ==
    IF filters = <<>> THEN cm
    ELSE LET key == Head(filters)
             got == IF HasKey(cm, key) THEN cm
                    ELSE Append(cm, [key |-> key, qids |-> <<>>])
             list == QueueIdsOf(got, key)
         IN IF ~InList(list, queue_id) THEN got
            ELSE LET rest == ListRemove(list, queue_id)
                     out == IF rest = <<>> THEN DelKey(got, key)
                            ELSE [got EXCEPT ![KeyPos(got, key)].qids = rest]
                 IN RemoveFilters(out, Tail(filters), queue_id)

\* _process_filter_queue(): the unpacking of a 4-tuple or a 3-tuple.
FilterMsg(msg) ==
    IF Len(msg) = 4
    THEN [queue_id |-> msg[1], queue_ack_id |-> msg[2],
          filters |-> msg[3], add |-> msg[4]]
    ELSE [queue_id |-> msg[1], queue_ack_id |-> None,
          filters |-> msg[2], add |-> msg[3]]

\* _process_filter_queue(): the change one filter message makes to context_map.
ApplyFilterMsg(cm, msg) ==
    LET m == FilterMsg(msg)
    IN IF m.add THEN AddFilters(cm, m.filters, m.queue_id)
       ELSE RemoveFilters(cm, m.filters, m.queue_id)

\* A socket check that, like the file check, does not look at the ids.
SocketIsValidMessage_AnyIds(message) == message # NoneMsg

\* DLTMessageHandler.is_valid_message / DLTFileSpinner.is_valid_message.
SocketIsValidMessage(message) ==
    message # NoneMsg /\ (message.apid # "" \/ message.ctid # "")
FileIsValidMessage(message) == message # NoneMsg
IsValidMessage(message) ==
    IF source = "socket" THEN SocketIsValidMessage(message)
    ELSE FileIsValidMessage(message)

\* A msg_ctx without the (None, ctid) key.
MsgCtx_NoCtidKey(message) ==
    { <<message.apid, message.ctid>>, <<None, None>>,
      <<message.apid, None>> }

\* handle(): msg_ctx, the four keys a message matches.
MsgCtx(message) ==
    { <<message.apid, message.ctid>>, <<None, None>>,
      <<message.apid, None>>, <<None, message.ctid>> }

\* handle(): the generator qids, walked over context_map.items() in order.
RECURSIVE Qids(_, _)
Qids(cm, message) ==
    IF cm = <<>> THEN <<>>
    ELSE (IF Head(cm).key \in MsgCtx(message) THEN Head(cm).qids ELSE <<>>)
         \o Qids(Tail(cm), message)

\* The messages a source can hand to handle() next; n is the message's place
\* in the order of arrival (its identity).
MessagesAt(messages) ==
    {[apid |-> m[1], ctid |-> m[2], storage_timestamp |-> m[3],
      n |-> n_handled + 1] : m \in messages}

\* handle(message) is entered.
HandleStart(message) ==
    /\ d_pc = "idle"
    /\ n_calls < CallBudget
    /\ n_calls' = n_calls + 1
    /\ n_handled' = n_handled + 1
    /\ d_msg' = message
    /\ seen_ts' = IF message = NoneMsg THEN seen_ts
                  ELSE seen_ts \cup {message.storage_timestamp}
    /\ d_pc' = "filters"
    /\ d_qids' = <<>>
    /\ d_enq' = <<>>
    /\ d_wrote' = FALSE
    /\ UNCHANGED <<restVars, cfgVars, context_map, filter_queue, message_queue,
                   disp_context_map, dlt_time, c_pc, c_item, c_dropped, sub_queue,
                   caller, ackVars>>

\* An ack for every filter message, with or without an ack id.
SendsAck_Always(msg) == enable_filter_set_ack

\* _process_filter_queue(): "if self.filter_ack_queue and queue_ack_id".
SendsAck(msg) == enable_filter_set_ack /\ FilterMsg(msg).queue_ack_id # None

\* _process_filter_queue(): one pass of its loop, on the head of filter_queue.
ProcessFilterQueue ==
    /\ d_pc = "filters"
    /\ filter_queue # <<>>
    /\ LET msg == Head(filter_queue)
       IN /\ SendsAck(msg) => PutReady(filter_ack_queue)
          /\ filter_queue' = Tail(filter_queue)
          /\ disp_context_map' = ApplyFilterMsg(disp_context_map, msg)
          /\ filter_ack_queue' =
                IF SendsAck(msg)
                THEN Append(filter_ack_queue,
                            <<FilterMsg(msg).queue_ack_id, FilterMsg(msg).add>>)
                ELSE filter_ack_queue
    /\ UNCHANGED <<restVars, cfgVars, handleVars, context_map, message_queue, dlt_time,
                   c_pc, c_item, c_dropped, sub_queue, caller, ack_context_map,
                   ack_queue, a_pc, a_item, recv_call, n_calls>>

\* A loop over the filter queue that may end with messages left.
Drained_Early(queue) == TRUE

\* _process_filter_queue(): "while not self.filter_queue.empty()" ends.
Drained(queue) == queue = <<>>

\* handle(): the filter queue is empty; "if self.is_valid_message(message)"
\* starts the dispatch, else handle() returns.
HandleValidate ==
    /\ d_pc = "filters"
    /\ Drained(filter_queue)
    /\ IF IsValidMessage(d_msg)
       THEN /\ d_pc' = "dispatch"
            /\ d_qids' = Qids(disp_context_map, d_msg)
       ELSE /\ d_pc' = "idle"
            /\ d_qids' = <<>>
    /\ UNCHANGED <<restVars, cfgVars, n_handled, d_msg, seen_ts, d_enq, d_wrote,
                   context_map, filter_queue, message_queue,
                   disp_context_map, dlt_time, c_pc, c_item, c_dropped, sub_queue,
                   caller, ackVars, n_calls>>

\* handle(): "self.message_queue.put((queue_id, message))", one queue id;
\* a full queue is logged and the put waits.
HandleEnqueue ==
    /\ d_pc = "dispatch"
    /\ d_qids # <<>>
    /\ PutReady(message_queue)
    /\ message_queue' = Append(message_queue, <<Head(d_qids), d_msg>>)
    /\ d_enq' = Append(d_enq, Head(d_qids))
    /\ d_qids' = Tail(d_qids)
    /\ UNCHANGED <<restVars, cfgVars, n_handled, d_msg, seen_ts, d_pc, d_wrote,
                   context_map, filter_queue, disp_context_map, dlt_time,
                   c_pc, c_item, c_dropped, sub_queue, caller, ackVars, n_calls>>

\* A time write placed before the loop over qids has ended.
TimeWriteReady_Early(qids) == TRUE

\* handle(): the place of the time write, after the loop over qids.
TimeWriteReady(qids) == qids = <<>>

\* A time cell of an integer type, which truncates what is stored (here to
\* an even number).
TimeValue_Truncated(message) == (message.storage_timestamp \div 2) * 2

\* handle(): "self._dlt_time_value.timestamp = message.storage_timestamp".
TimeValue(message) == message.storage_timestamp

\* handle(): the time write ("if self._dlt_time_value:") and the return.
HandleTime ==
    /\ d_pc = "dispatch"
    /\ TimeWriteReady(d_qids)
    /\ dlt_time' = IF enable_dlt_time THEN TimeValue(d_msg) ELSE dlt_time
    /\ d_wrote' = enable_dlt_time
    /\ d_pc' = "idle"
    /\ d_qids' = <<>>
    /\ UNCHANGED <<restVars, cfgVars, n_handled, d_msg, seen_ts, d_enq, context_map,
                   filter_queue, message_queue, disp_context_map, c_pc,
                   c_item, c_dropped, sub_queue, caller, ackVars, n_calls>>

\* ------------------------------------------------- DLTFilterAckMessageHandler
\* run(): "queue_ack_id, enable = self.filter_ack_queue.get()".
AckGet ==
    /\ a_pc = "get"
    /\ filter_ack_queue # <<>>
    /\ a_item' = Head(filter_ack_queue)
    /\ filter_ack_queue' = Tail(filter_ack_queue)
    /\ a_pc' = "forward"
    /\ UNCHANGED <<restVars, cfgVars, handleVars, context_map, filter_queue,
                   message_queue, disp_context_map, dlt_time, c_pc, c_item,
                   c_dropped, sub_queue, caller, ack_context_map, ack_queue, recv_call,
                   n_calls>>

\* A forward that does not ask whether the ack id is registered.
Forwarded_Unchecked(queues, registered, item) == [queues EXCEPT ![item[1]] = Append(@, item[2])]

\* run() of the ack handler: "if queue_ack_id in self.context_map:
\* self.context_map[queue_ack_id].put(enable)", else only a warning.
Forwarded(queues, registered, item) ==
    IF item[1] \in registered
    THEN [queues EXCEPT ![item[1]] = Append(@, item[2])]
    ELSE queues

\* run(): under context_map_lock, the put on the registered ack queue, or the
\* warning when the id is not registered.
AckForward ==
    /\ a_pc = "forward"
    /\ ack_queue' = Forwarded(ack_queue, ack_context_map, a_item)
    /\ a_pc' = "get"
    /\ a_item' = <<None, FALSE>>
    /\ UNCHANGED <<restVars, cfgVars, handleVars, context_map, filter_queue,
                   message_queue, disp_context_map, dlt_time, c_pc, c_item,
                   c_dropped, sub_queue, caller, filter_ack_queue, ack_context_map,
                   recv_call, n_calls>>

\* ------------------------------------------------- DLTMessageHandler.run
\* A value of Python type t.
Typed(t, v) == [type |-> t, value |-> v]
Str(v) == Typed("str", v)

\* A frame read from the receiver buffer: DLTMessage.apid and .ctid return str
\* (bytes_to_str); reading them from a frame without usable headers raises
\* AttributeError.
Frame(apid, ctid) == [apid |-> apid, ctid |-> ctid]
NoFrame == Frame(Typed("None", ""), Typed("None", ""))
GoodFrame == Frame(Str("A"), Str("C"))
EmptyFrame == Frame(Str(""), Str(""))
BrokenFrame == Frame(Typed("AttributeError", ""), Typed("AttributeError", ""))
SocketFrames == {GoodFrame, EmptyFrame, BrokenFrame}

\* "msg.apid" raises AttributeError.
Raises(msg) == msg.apid.type = "AttributeError"

\* py_dlt_client_main_loop(): 'msg.apid == b"" and msg.ctid == b""', the
\* comparison of the str ids with empty bytes.
IsCorruptIds(msg) == msg.apid = Typed("bytes", "") /\ msg.ctid = Typed("bytes", "")

\* bad_messages after the id test of the try block when nothing is raised.
AfterIdTest(msg, bad) == IF IsCorruptIds(msg) THEN bad + 1 ELSE bad

\* "bad_messages = 0", the statement after the try block.
AfterReset(bad) == 0

\* A frame without usable ids: both ids empty, or no ids to read at all.
Malformed(msg) == Raises(msg) \/ (msg.apid.value = "" /\ msg.ctid.value = "")

\* DLTMessage.to_bytes(): the storage header followed by the frame.
ToBytes(msg) == <<"DLT\\1", msg.apid.value, msg.ctid.value>>

\* py_dlt_client_main_loop(): "if dumpfile: dumpfile.write(msg.to_bytes())".
SaveMessage_Skip(dumpfile, content, msg) == content
SaveMessage(dumpfile, content, msg) ==
    IF dumpfile THEN Append(content, ToBytes(msg)) ELSE content

\* DLTMessageHandler.handle() as the callback: "return not
\* self.mp_stop_flag.is_set()".
Callback == ~mp_stop_flag

\* run(): exception_occured after py_dlt_client_main_loop() ended with res.
ExceptionOccured_OnlyRaise(res, stopped) == res = "raise"
ExceptionOccured(res, stopped) ==
    \/ res = "False" /\ ~stopped
    \/ res = "raise"

\* The malformed frames one connection session may bring.
MalformedBudget == IF tracefile THEN MaxDumped ELSE MaxMalformed

\* What the socket worker leaves alone besides its own state.
sockFrame == <<toolVars, cfgVars, handleVars, ackVars, context_map, filter_queue,
               message_queue, disp_context_map, dlt_time, c_pc, c_item,
               c_dropped, sub_queue, caller, n_calls, stopVars, tracefile,
               fileVars>>

\* py_dlt_client_main_loop() ends with res because of why.
MainLoopReturn(res, why) ==
    /\ k_pc' = "returned"
    /\ k_res' = res
    /\ k_why' = why

\* run(): "while not self.mp_stop_flag.is_set()" and _client_connect(); a
\* failed connect goes round the loop again.
ClientConnect ==
    /\ k_pc = "run"
    /\ ~mp_stop_flag
    /\ \E ok \in BOOLEAN :
           IF ok
           THEN /\ connected' = TRUE
                /\ k_pc' = "main_loop"
                /\ bad_messages' = 0
                /\ n_malformed' = 0
           ELSE UNCHANGED <<connected, k_pc, bad_messages, n_malformed>>
    /\ UNCHANGED <<sockFrame, dumped, k_msg, k_res, k_why>>

\* run(): the stop flag ends the loop; "self.message_queue.close()" and
\* "self._client.disconnect()".
RunExit ==
    /\ k_pc = "run"
    /\ mp_stop_flag
    /\ k_pc' = "exit"
    /\ connected' = FALSE
    /\ UNCHANGED <<sockFrame, dumped, bad_messages, k_msg, k_res, k_why,
                   n_malformed>>

\* py_dlt_client_main_loop(), top of "while True": the bad_messages check,
\* ready_to_read() (which may raise socket.timeout), callback(None) and
\* dlt_receiver_receive().
MainLoopTop ==
    /\ k_pc = "main_loop"
    /\ IF bad_messages > BadLimit
       THEN MainLoopReturn("False", "threshold")
       ELSE \E ready \in {"ok", "closed", "timeout"}, received \in BOOLEAN :
                CASE ready = "closed" -> MainLoopReturn("False", "closed")
                  [] ready = "timeout" -> MainLoopReturn("raise", "socket_error")
                  [] OTHER ->
                       IF ~Callback
                       THEN MainLoopReturn("False", "stopped")
                       ELSE IF ~received
                            THEN MainLoopReturn("False", "socket_error")
                            ELSE /\ k_pc' = "read"
                                 /\ UNCHANGED <<k_res, k_why>>
    /\ UNCHANGED <<sockFrame, dumped, connected, bad_messages, k_msg,
                   n_malformed>>

\* "msg = client.read_message()": a frame, or None when the buffer holds no
\* complete frame; then the else of "while msg" rewinds the receiver buffer.
ReadMessage ==
    /\ k_pc = "read"
    /\ \E msg \in SocketFrames \cup {NoFrame}, rewound \in BOOLEAN :
           /\ Malformed(msg) => n_malformed < MalformedBudget
           /\ (tracefile /\ msg # NoFrame) => Len(dumped) < MaxDumped
           /\ k_msg' = msg
           /\ IF msg # NoFrame
              THEN /\ k_pc' = "message"
                   /\ UNCHANGED <<k_res, k_why>>
              ELSE IF rewound
                   THEN /\ k_pc' = "check"
                        /\ UNCHANGED <<k_res, k_why>>
                   ELSE MainLoopReturn("False", "rewind_failed")
    /\ UNCHANGED <<sockFrame, dumped, connected, bad_messages, n_malformed>>

\* The body of "while msg" up to the callback: the id test with its except
\* branch, "bad_messages = 0", the write to dumpfile and dlt_receiver_remove().
MessageSave ==
    /\ k_pc = "message"
    /\ n_malformed' = IF Malformed(k_msg) THEN n_malformed + 1 ELSE n_malformed
    /\ IF Raises(k_msg)
       THEN /\ bad_messages' = bad_messages + 1
            /\ k_pc' = "read"
            /\ UNCHANGED <<dumped, k_res, k_why>>
       ELSE /\ bad_messages' = AfterReset(AfterIdTest(k_msg, bad_messages))
            /\ dumped' = SaveMessage(tracefile, dumped, k_msg)
            /\ \E removed \in BOOLEAN :
                   IF removed
                   THEN /\ k_pc' = "callback"
                        /\ UNCHANGED <<k_res, k_why>>
                   ELSE MainLoopReturn("False", "remove_failed")
    /\ UNCHANGED <<sockFrame, connected, k_msg>>

\* A loop that reads the next message whatever the callback returned.
AfterCallback_ReadOn(continue) == "read"

\* "if callback and not callback(msg): break", else (without limit) "msg =
\* client.read_message()": where the loop goes after the callback returned.
AfterCallback(continue) == IF continue THEN "read" ELSE "check"

\* The callback is called with the message that was read.
MessageCallback ==
    /\ k_pc = "callback"
    /\ k_pc' = AfterCallback(Callback)
    /\ UNCHANGED <<sockFrame, dumped, connected, bad_messages, k_msg, k_res,
                   k_why, n_malformed>>

\* After the inner loop: "if callback and not callback(msg): break" and
\* "return True".
LoopCheck ==
    /\ k_pc = "check"
    /\ IF Callback
       THEN /\ k_pc' = "main_loop"
            /\ UNCHANGED <<k_res, k_why>>
       ELSE MainLoopReturn("True", "stopped")
    /\ UNCHANGED <<sockFrame, dumped, connected, bad_messages, k_msg,
                   n_malformed>>

\* run(): the test of res, the except branches and the finally that
\* disconnects the client when exception_occured.
RunResult ==
    /\ k_pc = "returned"
    /\ connected' = IF ExceptionOccured(k_res, mp_stop_flag) THEN FALSE
                    ELSE connected
    /\ k_pc' = "run"
    /\ UNCHANGED <<sockFrame, dumped, bad_messages, k_msg, k_res, k_why,
                   n_malformed>>

\* ------------------------------------------------- cDLTFile.__iter__
\* The storage header pattern b"DLT\x01" that starts every frame.
Magic == <<"D", "L", "T", "\\x01">>

\* A complete frame, the id-th of the file, and a run of random bytes.
FrameSegment(id) == [kind |-> "frame", id |-> id, len |-> 40]
JunkSegment(len) == [kind |-> "junk", id |-> 0, len |-> len]
\* Bytes that start with the pattern and that dlt_file_read() cannot decode:
\* a frame that is cut off or whose headers are damaged.
BrokenSegment == [kind |-> "broken", id |-> 0, len |-> 20]
JunkLengths == {32, 1022}

RECURSIVE Size(_)
\* os.stat(filename).st_size of a file made of segments.
Size(segments) ==
    IF segments = <<>> THEN 0
    ELSE Size(SubSeq(segments, 1, Len(segments) - 1)) + Last(segments).len

\* The byte offset at which segment i starts.
Offset(segments, i) == Size(SubSeq(segments, 1, i - 1))

\* The ids of the frames of the file, in file order.
FrameIds(segments) ==
    LET frames == SelectSeq(segments, LAMBDA seg : seg.kind = "frame")
    IN [i \in 1..Len(frames) |-> frames[i].id]

\* The frames written so far.
CountFrames(segments) == Len(FrameIds(segments))

\* dlt_file_read() at offset pos: the index of the complete frame that starts
\* there, 0 when there is none (random bytes, or the end of the file).
FrameAt(segments, pos) ==
    LET here == {i \in 1..Len(segments) :
                     Offset(segments, i) = pos /\ segments[i].kind = "frame"}
    IN IF here = {} THEN 0 ELSE CHOOSE i \in here : TRUE

\* _find_next_header(): the value it returns when it finds no pattern.
NoHeader == -1

\* _find_next_header() reads the file from pos in chunks of ChunkSize bytes and
\* looks for the pattern in each chunk by itself: a pattern at offset m is seen
\* when it lies within one chunk.
InOneChunk(pos, m) == ((m - pos) % ChunkSize) + Len(Magic) <= ChunkSize

\* _find_next_header() with file_position = pos.
FindNextHeader(segments, pos) ==
    LET seen == {m \in {Offset(segments, i) : i \in 1..Len(segments)} :
                     /\ m >= pos
                     /\ \E i \in 1..Len(segments) :
                            /\ Offset(segments, i) = m
                            /\ segments[i].kind \in {"frame", "broken"}
                     /\ InOneChunk(pos, m)}
    IN IF seen = {} THEN NoHeader
       ELSE CHOOSE m \in seen : \A n \in seen : m <= n

\* "if next_header_position:", false for None and for 0.
Truthy(position) == position # NoHeader /\ position # 0

\* A test that reads only when the file changed.
ShouldRead_OnlyChange(stat_mtime, cached, st_size, retry) == stat_mtime # cached /\ st_size # 0

\* __iter__(): "mtime != cached_mtime and os_stat.st_size or
\* corruption_check_try".
ShouldRead_OnlyRetry(stat_mtime, cached, st_size, retry) == retry
ShouldRead(stat_mtime, cached, st_size, retry) ==
    (stat_mtime # cached /\ st_size # 0) \/ retry

\* What the iteration and the writer leave alone besides the file state.
fileFrame == <<toolVars, cfgVars, handleVars, ackVars, context_map, filter_queue,
               message_queue, disp_context_map, dlt_time, c_pc, c_item,
               c_dropped, sub_queue, caller, n_calls, sockVars, stop_pc,
               mp_stop_flag, stop_flag, stop_log, live_run>>

\* The writer of the file may append: to a file read in batch mode before
\* the iteration starts, to a file read in live mode while it is iterated.
WriterReady ==
    /\ Len(file) < MaxFile
    /\ IF live_run THEN f_pc \in {"loop", "read", "check"} ELSE f_pc = "closed"

\* The writer appends one complete frame; st_mtime changes with the write.
WriteFrame ==
    /\ WriterReady
    /\ file' = Append(file, FrameSegment(CountFrames(file) + 1))
    /\ mtime' = mtime + 1
    /\ written_after_stop' = IF stop_reading_proc THEN written_after_stop + 1
                             ELSE written_after_stop
    /\ UNCHANGED <<fileFrame, stop_reading_proc, f_pc, file_position,
                   cached_mtime, cached_file_pos, corruption_check_try,
                   found_data, corrupt_msg_count, yielded, polls_after_stop>>

\* A run of random bytes gets into the file, after a frame or at its start.
WriteJunk ==
    /\ WriterReady
    /\ IF file = <<>> THEN TRUE ELSE Last(file).kind = "frame"
    /\ \E len \in JunkLengths : file' = Append(file, JunkSegment(len))
    /\ mtime' = mtime + 1
    /\ written_after_stop' = IF stop_reading_proc THEN written_after_stop + 1
                             ELSE written_after_stop
    /\ UNCHANGED <<fileFrame, stop_reading_proc, f_pc, file_position,
                   cached_mtime, cached_file_pos, corruption_check_try,
                   found_data, corrupt_msg_count, yielded, polls_after_stop>>

\* __iter__() up to the loop: the three locals, _open_file() (which raises
\* IOError when the stop event is already set) and found_data.
IterOpen ==
    /\ f_pc = "closed"
    /\ cached_mtime' = 0
    /\ cached_file_pos' = 0
    /\ corruption_check_try' = TRUE
    /\ found_data' = FALSE
    /\ f_pc' = IF stop_reading_proc THEN "raised" ELSE "loop"
    /\ UNCHANGED <<fileFrame, stop_reading_proc, file, mtime, file_position,
                   corrupt_msg_count, yielded, polls_after_stop,
                   written_after_stop>>

\* The iteration ends: "if not found_data: raise IOError(DLT_EMPTY_FILE_ERROR)".
IterEnded == IF found_data THEN "done" ELSE "raised"

\* One test of "while not self.stop_reading.isSet() or corruption_check_try",
\* os.stat() and the test that decides whether this pass reads; a pass that
\* does not read sleeps and comes back here.
IterPoll ==
    /\ f_pc = "loop"
    /\ IF stop_reading_proc /\ ~corruption_check_try
       THEN /\ f_pc' = IterEnded
            /\ UNCHANGED <<cached_mtime, corruption_check_try,
                           polls_after_stop>>
       ELSE /\ polls_after_stop' = IF stop_reading_proc
                                   THEN polls_after_stop + 1
                                   ELSE polls_after_stop
            /\ IF ShouldRead(mtime, cached_mtime, Size(file),
                             corruption_check_try)
               THEN /\ cached_mtime' = mtime
                    /\ corruption_check_try' = FALSE
                    /\ f_pc' = "read"
               ELSE UNCHANGED <<cached_mtime, corruption_check_try, f_pc>>
    /\ UNCHANGED <<fileFrame, stop_reading_proc, file, mtime, file_position,
                   cached_file_pos, found_data, corrupt_msg_count, yielded,
                   written_after_stop>>

\* "while dltlib.dlt_file_read(...) >= DLT_RETURN_OK": a complete frame at
\* file_position is read and yielded, anything else ends the inner loop with
\* file_position as it was.
IterRead ==
    /\ f_pc = "read"
    /\ LET i == FrameAt(file, file_position)
       IN IF i # 0
          THEN /\ found_data' = TRUE
               /\ file_position' = file_position + file[i].len
               /\ yielded' = Append(yielded, file[i].id)
               /\ UNCHANGED f_pc
          ELSE /\ f_pc' = "check"
               /\ UNCHANGED <<found_data, file_position, yielded>>
    /\ UNCHANGED <<fileFrame, stop_reading_proc, file, mtime, cached_mtime,
                   cached_file_pos, corruption_check_try, corrupt_msg_count,
                   polls_after_stop, written_after_stop>>

\* After the inner loop: messages were read since the last pass, or
\* _find_next_header() decides between an incomplete frame, a corrupt run to
\* skip and the end of the file; then time.sleep(0.1).
IterCheck ==
    /\ f_pc = "check"
    /\ IF cached_file_pos # file_position
       THEN /\ corruption_check_try' = TRUE
            /\ cached_file_pos' = file_position
            /\ f_pc' = "loop"
            /\ UNCHANGED <<file_position, corrupt_msg_count>>
       ELSE LET next_header_position == FindNextHeader(file, file_position)
            IN IF Truthy(next_header_position)
               THEN IF file_position = next_header_position
                    THEN /\ f_pc' = IF live_run THEN "loop" ELSE IterEnded
                         /\ UNCHANGED <<file_position, corrupt_msg_count,
                                        corruption_check_try, cached_file_pos>>
                    ELSE /\ file_position' = next_header_position
                         /\ corrupt_msg_count' = corrupt_msg_count + 1
                         /\ corruption_check_try' = TRUE
                         /\ f_pc' = "loop"
                         /\ UNCHANGED cached_file_pos
               ELSE /\ f_pc' = IF live_run THEN "loop" ELSE IterEnded
                    /\ UNCHANGED <<file_position, corrupt_msg_count,
                                   corruption_check_try, cached_file_pos>>
    /\ UNCHANGED <<fileFrame, stop_reading_proc, file, mtime, cached_mtime,
                   found_data, yielded, polls_after_stop, written_after_stop>>

\* The file that is iterated in batch mode lies there before the iteration
\* starts.
FileGiven(segments) ==
    /\ f_pc = "closed"
    /\ file = <<>>
    /\ file' = segments
    /\ mtime' = mtime + 1
    /\ UNCHANGED <<fileFrame, stop_reading_proc, f_pc, file_position,
                   cached_mtime, cached_file_pos, corruption_check_try,
                   found_data, corrupt_msg_count, yielded, polls_after_stop,
                   written_after_stop>>

\* The iteration's steps.
IterSteps ==
    \/ IterOpen
    \/ IterPoll
    \/ IterRead
    \/ IterCheck

\* ------------------------------------------------- cDLTFile.generate_index
RECURSIVE FilesOfLen(_)
\* The files of n segments: frames numbered in file order, damaged frames,
\* and runs of random bytes that are not next to each other.
FilesOfLen(n) ==
    IF n = 0 THEN {<<>>}
    ELSE {Append(f, seg) :
              f \in FilesOfLen(n - 1),
              seg \in {FrameSegment(1), BrokenSegment}
                      \cup {JunkSegment(len) : len \in JunkLengths}}

RECURSIVE Numbered(_)
\* The frames of a file get their ids in file order.
Numbered(segments) ==
    IF segments = <<>> THEN <<>>
    ELSE LET front == Numbered(SubSeq(segments, 1, Len(segments) - 1))
         IN Append(front,
                   IF Last(segments).kind = "frame"
                   THEN FrameSegment(CountFrames(front) + 1)
                   ELSE Last(segments))

\* No two runs of random bytes follow each other.
JunkApart(segments) ==
    \A i \in 1..(Len(segments) - 1) :
        ~(segments[i].kind = "junk" /\ segments[i + 1].kind = "junk")

\* The files generate_index() is called on.
IndexedFiles ==
    {Numbered(f) : f \in {g \in UNION {FilesOfLen(n) : n \in 0..MaxFile} :
                              JunkApart(g)}}

\* A recovery that always gives up.
Recovered_Stop(position, count, next) == [pc |-> "done", position |-> position, count |-> count]

\* generate_index() after dlt_file_read() failed: with the position
\* _find_next_header() returned, the scan stops (break) or goes on at that
\* position with corrupt_msg_count raised.
Recovered(position, count, next) ==
    IF Truthy(next)
    THEN IF position = next
         THEN [pc |-> "done", position |-> position, count |-> count]
         ELSE [pc |-> "loop", position |-> next, count |-> count + 1]
    ELSE [pc |-> "done", position |-> position, count |-> count]

\* What generate_index() leaves alone.
genFrame == <<cfgVars, handleVars, ackVars, context_map, filter_queue,
              message_queue, disp_context_map, dlt_time, c_pc, c_item,
              c_dropped, sub_queue, caller, n_calls, stopVars, sockVars,
              mtime, live_run, f_pc, cached_mtime, cached_file_pos,
              corruption_check_try, found_data, yielded, polls_after_stop,
              written_after_stop, chk_index, chk_counter, chk_result,
              chk_message, chk_before, b_data, b_sort, b_msg, b_out, cmp_msg,
              cmp_passed, cmp_other, cmp_result, d_filter, n_puts,
               k_log, k_limit,
               st_prev, st_cur>>

\* generate_index() on a file: dlt_file_open(), and IOError for an empty file.
GenerateIndexOpen(segments) ==
    /\ g_pc = "closed"
    /\ file' = segments
    /\ file_position' = 0
    /\ g_index' = <<>>
    /\ g_pc' = IF Size(segments) = 0 THEN "raised" ELSE "loop"
    /\ UNCHANGED <<genFrame, corrupt_msg_count>>

\* "while self.file_position < self.file_length" and dlt_file_read(): a
\* complete frame at file_position is put in the index, anything else is a
\* read error.
IndexRead ==
    /\ g_pc = "loop"
    /\ IF file_position >= Size(file)
       THEN /\ g_pc' = "done"
            /\ UNCHANGED <<file_position, g_index>>
       ELSE LET i == FrameAt(file, file_position)
            IN IF i # 0
               THEN /\ file_position' = file_position + file[i].len
                    /\ g_index' = Append(g_index, file[i].id)
                    /\ UNCHANGED g_pc
               ELSE /\ g_pc' = "recover"
                    /\ UNCHANGED <<file_position, g_index>>
    /\ UNCHANGED <<genFrame, file, corrupt_msg_count>>

\* "if ret < DLT_RETURN_OK": _find_next_header() and what follows from it.
IndexRecover ==
    /\ g_pc = "recover"
    /\ LET r == Recovered(file_position, corrupt_msg_count,
                          FindNextHeader(file, file_position))
       IN /\ g_pc' = r.pc
          /\ file_position' = r.position
          /\ corrupt_msg_count' = r.count
    /\ UNCHANGED <<genFrame, file, g_index>>

\* ------------------------------------- _process_filter_queue, step by step
\* The filter messages put on the dispatcher's filter queue directly: 3-tuples
\* and 4-tuples with an ack id, adds and removes, of one key or of two.
IndexFilterLists ==
    { << <<"A", None>> >>,
      << <<"A", "C">>, <<"A", None>> >> }
IndexMsgs ==
    {MakeSendFilterMsg(queue_id, filters, add, ack) :
         queue_id \in QueueIds, filters \in IndexFilterLists,
         add \in BOOLEAN, ack \in {None, "a1"}}

\* What the steps of _process_filter_queue leave alone.
indexFrame == <<cfgVars, n_handled, d_msg, seen_ts, d_qids, d_enq, d_wrote,
                context_map, message_queue, dlt_time, c_pc, c_item, c_dropped,
                sub_queue, caller, ack_context_map, ack_queue, a_pc, a_item,
                recv_call, n_calls, stopVars, sockVars, fileVars, chk_index,
                chk_counter, chk_result, chk_message, chk_before, b_data,
                b_sort, b_msg, b_out, cmp_msg, cmp_passed, cmp_other,
                cmp_result,
                 g_pc, g_index,
                 k_log, k_limit,
                 st_prev, st_cur>>

\* "filter_queue.put(msg)" by the owner of the dispatcher.
FilterQueuePut(msg) ==
    /\ n_puts < MaxPuts
    /\ PutReady(filter_queue)
    /\ n_puts' = n_puts + 1
    /\ filter_queue' = Append(filter_queue, msg)
    /\ UNCHANGED <<indexFrame, d_pc, d_filter, disp_context_map,
                   filter_ack_queue>>

\* _process_filter_queue(): "msg = self.filter_queue.get_nowait()" and the
\* change of context_map the message asks for.
FilterApply ==
    /\ d_pc = "filters"
    /\ filter_queue # <<>>
    /\ d_filter' = Head(filter_queue)
    /\ filter_queue' = Tail(filter_queue)
    /\ disp_context_map' = ApplyFilterMsg(disp_context_map, Head(filter_queue))
    /\ d_pc' = "ack"
    /\ UNCHANGED <<indexFrame, n_puts, filter_ack_queue>>

\* _process_filter_queue(): "if self.filter_ack_queue and queue_ack_id:
\* self.filter_ack_queue.put((queue_ack_id, add))", then the next pass.
FilterAck ==
    /\ d_pc = "ack"
    /\ SendsAck(d_filter) => PutReady(filter_ack_queue)
    /\ filter_ack_queue' =
          IF SendsAck(d_filter)
          THEN Append(filter_ack_queue,
                      <<FilterMsg(d_filter).queue_ack_id, FilterMsg(d_filter).add>>)
          ELSE filter_ack_queue
    /\ d_pc' = "filters"
    /\ UNCHANGED <<indexFrame, n_puts, d_filter, filter_queue,
                   disp_context_map>>

\* ------------------------------------------------- DLTMessage and bytes
\* The htyp bits of the standard header.
DLT_HTYP_UEH == 1
DLT_HTYP_WEID == 4
DLT_HTYP_WSID == 8
DLT_HTYP_WTMS == 16

\* "htyp & bit" is not zero, for a bit that is a power of two.
HasBit(htyp, bit) == (htyp \div bit) % 2 = 1

\* Python's data[i] and data[a:b] for 0 <= a, with the clamping of slices.
At(data, i) == data[i + 1]
Slice(data, a, b) ==
    LET stop == IF b < Len(data) THEN b ELSE Len(data)
    IN IF a >= stop THEN <<>> ELSE SubSeq(data, a + 1, stop)

\* Python's data[a:b:-1] for b < a < len(data): data[a], data[a-1], .., data[b+1].
SliceDown(data, a, b) == [k \in 1..(a - b) |-> At(data, a - k + 1)]

RECURSIVE LittleEndian(_)
\* The value ctypes reads through a pointer to an unsigned integer placed on
\* the bytes, on a little-endian host.
LittleEndian(bytes) ==
    IF bytes = <<>> THEN 0
    ELSE Head(bytes) + 256 * LittleEndian(Tail(bytes))

RECURSIVE BigEndian(_)
\* An unsigned integer in network byte order, as the DLT headers store it.
BigEndian(bytes) ==
    IF bytes = <<>> THEN 0
    ELSE 256 * BigEndian(SubSeq(bytes, 1, Len(bytes) - 1)) + Last(bytes)

RECURSIVE RStripNul(_)
\* bytes.rstrip(b"\x00").
RStripNul(bytes) ==
    IF bytes # <<>> /\ Last(bytes) = 0
    THEN RStripNul(SubSeq(bytes, 1, Len(bytes) - 1))
    ELSE bytes

RECURSIVE UpToNul(_)
\* The value of a ctypes c_char array: the bytes before the first NUL.
UpToNul(bytes) ==
    IF bytes = <<>> \/ Head(bytes) = 0 THEN <<>>
    ELSE <<Head(bytes)>> \o UpToNul(Tail(bytes))

\* helpers.bytes_to_str() on ASCII bytes: the str with these characters.
BytesToStr(bytes) == Str(bytes)

\* tmsp / 10000.0: seconds, kept as a fraction.
Seconds(tmsp) == [num |-> tmsp, den |-> 10000]

\* sizeof() of the storage header, the standard header and the extended header.
StorageHeaderSize == 16
StandardHeaderSize == 4
ExtendedHeaderSize == 10

\* The size of the header extra fields that htyp announces.
ExtraSize(htyp) ==
    (IF HasBit(htyp, DLT_HTYP_WEID) THEN 4 ELSE 0)
    + (IF HasBit(htyp, DLT_HTYP_WSID) THEN 4 ELSE 0)
    + (IF HasBit(htyp, DLT_HTYP_WTMS) THEN 4 ELSE 0)

\* A result of extract_sort_data(), and the value before it is called.
SortData(tmsp, len, apid, ctid) ==
    [tmsp |-> tmsp, len |-> len, apid |-> apid, ctid |-> ctid]
NoSort == SortData(Seconds(0), 0, Typed("None", <<>>), Typed("None", <<>>))

\* DLTMessage.extract_sort_data(data).
ExtractSortData(data) ==
    LET htyp_data == At(data, 16)
        len_value == (LittleEndian(SliceDown(data, 19, 17)) % 65536) + 16
        bytes_offset ==
            (IF ~HasBit(htyp_data, DLT_HTYP_WEID) THEN -4 ELSE 0)
            + (IF ~HasBit(htyp_data, DLT_HTYP_WSID) THEN -4 ELSE 0)
        tmsp_base == 31 + bytes_offset
        tmsp_value ==
            IF HasBit(htyp_data, DLT_HTYP_WTMS)
            THEN Seconds(LittleEndian(SliceDown(data, tmsp_base, tmsp_base - 4)))
            ELSE Seconds(0)
        apid_base == 38 + bytes_offset
        apid == IF HasBit(htyp_data, DLT_HTYP_UEH)
                THEN RStripNul(Slice(data, apid_base - 4, apid_base))
                ELSE <<>>
        ctid == IF HasBit(htyp_data, DLT_HTYP_UEH)
                THEN RStripNul(Slice(data, apid_base, apid_base + 4))
                ELSE <<>>
    IN SortData(tmsp_value, len_value, BytesToStr(apid), BytesToStr(ctid))

\* A DLTMessage: the header buffer with the bytes in use, the payload, and the
\* storage header that p_storageheader points to.
Message(headerbuffer, headersize, databuffer, storageheader) ==
    [headerbuffer |-> headerbuffer, headersize |-> headersize,
     databuffer |-> databuffer, storageheader |-> storageheader]
NoMessage == Message(<<>>, 0, <<>>, <<>>)

\* The header buffer of a new DLTMessage: zero bytes where the storage header
\* goes.
NewHeaderBuffer == [i \in 1..StorageHeaderSize |-> 0]

\* dlt_message_read() on a buffer that starts with the standard header: the
\* headers are copied behind the storage header's place in headerbuffer, the
\* rest of the message is the payload.
MessageRead(buffer) ==
    LET htyp == At(buffer, 0)
        length == BigEndian(Slice(buffer, 2, 4))
        size == StandardHeaderSize + ExtraSize(htyp)
                + (IF HasBit(htyp, DLT_HTYP_UEH) THEN ExtendedHeaderSize ELSE 0)
    IN Message(NewHeaderBuffer \o Slice(buffer, 0, size),
               StorageHeaderSize + size,
               Slice(buffer, size, length),
               Slice(NewHeaderBuffer, 0, StorageHeaderSize))

\* DLTMessage.extract_storageheader(data).
ExtractStorageHeader(data) ==
    <<Slice(data, 0, StorageHeaderSize), Slice(data, StorageHeaderSize, Len(data))>>

\* DLTMessage.from_bytes(data): the message read from the remainder, with
\* p_storageheader.contents set to the extracted storage header.
FromBytes(data) ==
    LET parts == ExtractStorageHeader(data)
        msg == MessageRead(parts[2])
    IN [msg EXCEPT !.storageheader = parts[1]]

\* DLTMessage.to_bytes(): string_at(headerbuffer, headersize) +
\* string_at(databuffer, datasize).
MessageToBytes(msg) ==
    Slice(msg.headerbuffer, 0, msg.headersize) \o msg.databuffer

\* The decoded message's properties: the offsets of the extra fields and of
\* the extended header follow from htyp.
MessageHtyp(msg) == At(msg.headerbuffer, StorageHeaderSize)
MessageTmspOffset(msg) ==
    StorageHeaderSize + StandardHeaderSize
    + ExtraSize(MessageHtyp(msg)) - 4
MessageExtendedOffset(msg) ==
    StorageHeaderSize + StandardHeaderSize + ExtraSize(MessageHtyp(msg))
MessageTmsp(msg) ==
    IF HasBit(MessageHtyp(msg), DLT_HTYP_WTMS)
    THEN Seconds(BigEndian(Slice(msg.headerbuffer, MessageTmspOffset(msg),
                                 MessageTmspOffset(msg) + 4)))
    ELSE Seconds(0)
MessageApid(msg) ==
    BytesToStr(IF HasBit(MessageHtyp(msg), DLT_HTYP_UEH)
               THEN UpToNul(Slice(msg.headerbuffer,
                                  MessageExtendedOffset(msg) + 2,
                                  MessageExtendedOffset(msg) + 6))
               ELSE <<>>)
MessageCtid(msg) ==
    BytesToStr(IF HasBit(MessageHtyp(msg), DLT_HTYP_UEH)
               THEN UpToNul(Slice(msg.headerbuffer,
                                  MessageExtendedOffset(msg) + 6,
                                  MessageExtendedOffset(msg) + 10))
               ELSE <<>>)

\* The stored frames given to the functions: a storage header, the standard
\* header with htyp and the length, the extra fields htyp announces, the
\* extended header when UEH is set, and a payload.
StoredHeader == <<68, 76, 84, 1, 0, 0, 0, 5, 0, 0, 0, 9, 69, 67, 85, 49>>
StoredEcu == <<69, 67, 85, 49>>
StoredSeid == <<0, 0, 1, 44>>
StoredTimestamps == {<<0, 0, 0, 0>>, <<0, 1, 17, 112>>, <<1, 0, 0, 2>>}
StoredIds == {<<65, 0, 0, 0>>, <<65, 80, 80, 49>>}
StoredPayloads == {<<>>, <<80, 76, 68, 49, 50>>}
HtypValues ==
    {ueh + weid + wsid + wtms :
         ueh \in {0, DLT_HTYP_UEH}, weid \in {0, DLT_HTYP_WEID},
         wsid \in {0, DLT_HTYP_WSID}, wtms \in {0, DLT_HTYP_WTMS}}

StoredFrame(htyp, tmsp, apid, ctid, payload) ==
    LET extra == (IF HasBit(htyp, DLT_HTYP_WEID) THEN StoredEcu ELSE <<>>)
                 \o (IF HasBit(htyp, DLT_HTYP_WSID) THEN StoredSeid ELSE <<>>)
                 \o (IF HasBit(htyp, DLT_HTYP_WTMS) THEN tmsp ELSE <<>>)
        extended == IF HasBit(htyp, DLT_HTYP_UEH)
                    THEN <<65, 1>> \o apid \o ctid ELSE <<>>
        length == StandardHeaderSize + Len(extra) + Len(extended) + Len(payload)
    IN StoredHeader \o <<htyp, 7, length \div 256, length % 256>>
       \o extra \o extended \o payload

StoredFrames ==
    {StoredFrame(htyp, tmsp, apid, ctid, payload) :
         htyp \in HtypValues, tmsp \in StoredTimestamps, apid \in StoredIds,
         ctid \in StoredIds, payload \in StoredPayloads}

\* What the functions on bytes leave alone.
bytesFrame == <<cfgVars, handleVars, ackVars, context_map, filter_queue,
                message_queue, disp_context_map, dlt_time, c_pc, c_item,
                c_dropped, sub_queue, caller, n_calls, stopVars, sockVars,
                fileVars, chk_index, chk_counter, chk_result, chk_message,
                chk_before, b_data, cmp_msg, cmp_passed, cmp_other,
                cmp_result, d_filter, n_puts,
                 g_pc, g_index,
                 k_log, k_limit,
                 st_prev, st_cur>>

\* extract_sort_data(b_data) is called.
CallExtractSortData ==
    /\ b_sort = NoSort
    /\ b_sort' = ExtractSortData(b_data)
    /\ UNCHANGED <<bytesFrame, b_msg, b_out>>

\* DLTMessage.from_bytes(b_data) is called.
CallFromBytes ==
    /\ b_msg = NoMessage
    /\ b_msg' = FromBytes(b_data)
    /\ UNCHANGED <<bytesFrame, b_sort, b_out>>

\* to_bytes() is called on the message made by from_bytes().
CallToBytes ==
    /\ b_msg # NoMessage
    /\ b_out = <<>>
    /\ b_out' = MessageToBytes(b_msg)
    /\ UNCHANGED <<bytesFrame, b_sort, b_msg>>

\* ------------------------------------------------- DLTMessage.compare
\* The attributes of a message that compare() reads, and the value before a
\* call.
Compared(apid, ctid, seid) ==
    [apid |-> Str(apid), ctid |-> Str(ctid), seid |-> Typed("int", seid)]
NoCompared == Compared(<<>>, <<>>, 0)

\* The values of the dict: None, a str, an int, a compiled pattern.
NoValue == Typed("None", <<>>)
Pattern(p) == Typed("pattern", p)

\* The keys of the dict, split at the dots: "apid", "ctid", "seid" and the
\* obsolete "extendedheader.apid".
KeyApid == <<"apid">>
KeyCtid == <<"ctid">>
KeySeid == <<"seid">>
KeyDotted == <<"extendedheader", "apid">>

\* other.get(key, None).
Get(other, key) == IF key \in DOMAIN other THEN other[key] ELSE NoValue

\* key.rsplit(".", 1)[-1] and getattr(self, key, b"").
GetAttr(self, key) ==
    LET name == key[Len(key)]
    IN IF name = "apid" THEN self.apid
       ELSE IF name = "ctid" THEN self.ctid
       ELSE IF name = "seid" THEN self.seid
       ELSE Typed("bytes", <<>>)

\* The truth value Python gives a value in "if value" and "not value".
Bool(value) ==
    IF value.type = "None" THEN FALSE
    ELSE IF value.type = "pattern" THEN TRUE
    ELSE IF value.type = "int" THEN value.value # 0
    ELSE value.value # <<>>

\* "a != b" of two values is false: same type and same value.
SameValue(a, b) == a.type = b.type /\ a.value = b.value

\* val.search(msg_val) finds something, for a pattern of literal characters.
Search(val, msg_val) ==
    \E i \in 0..(Len(msg_val.value) - Len(val.value)) :
        SubSeq(msg_val.value, i + 1, i + Len(val.value)) = val.value

\* The loop of compare() passes one item without returning False.
ItemPasses(self, key, val) ==
    \/ val.type = "None"
    \/ /\ Bool(GetAttr(self, key))
       /\ IF val.type = "pattern"
          THEN Search(val, GetAttr(self, key))
          ELSE SameValue(GetAttr(self, key), val)

\* DLTMessage.compare(other) for a dict: the two early tests of apid and ctid,
\* then the loop over the items, which returns False at the first item that
\* does not pass.
CompareDict(self, other) ==
    LET apid == Get(other, KeyApid)
        ctid == Get(other, KeyCtid)
    IN IF Bool(apid) /\ apid.type # "pattern" /\ ~SameValue(self.apid, apid)
       THEN FALSE
       ELSE IF Bool(ctid) /\ ctid.type # "pattern" /\ ~SameValue(self.ctid, ctid)
       THEN FALSE
       ELSE \A key \in DOMAIN other : ItemPasses(self, key, other[key])

\* The messages and the dicts compare() is called with.
ComparedApids == {<<>>, <<"A">>, <<"A", "B">>}
ComparedCtids == {<<>>, <<"C">>}
ComparedSeids == {0, 5}
ComparedMessages ==
    {Compared(apid, ctid, seid) :
         apid \in ComparedApids, ctid \in ComparedCtids, seid \in ComparedSeids}
ApidValues == {NoValue, Str(<<>>), Str(<<"A">>), Pattern(<<"B">>), Pattern(<<>>)}
CtidValues == {NoValue, Str(<<>>), Str(<<"C">>)}
SeidValues == {NoValue, Typed("int", 0), Typed("int", 5)}
DottedValues == {Str(<<"A">>), Str(<<"A", "B">>)}
KeyValues(key) ==
    IF key = KeyApid THEN ApidValues
    ELSE IF key = KeyCtid THEN CtidValues
    ELSE IF key = KeySeid THEN SeidValues
    ELSE DottedValues
ComparedDicts ==
    UNION {{other \in [keys -> UNION {KeyValues(k) : k \in keys}] :
                \A k \in keys : other[k] \in KeyValues(k)} :
           keys \in SUBSET {KeyApid, KeyCtid, KeySeid, KeyDotted}}

\* What compare() leaves alone.
compareFrame == <<cfgVars, handleVars, ackVars, context_map, filter_queue,
                  message_queue, disp_context_map, dlt_time, c_pc, c_item,
                  c_dropped, sub_queue, caller, n_calls, stopVars, sockVars,
                  fileVars, chk_index, chk_counter, chk_result, chk_message,
                  chk_before, b_data, b_sort, b_msg, b_out, d_filter, n_puts,
                   g_pc, g_index,
                   k_log, k_limit,
                   st_prev, st_cur>>

\* message.compare(other) is called once with a dict; compare() works on
\* other.copy(), the caller's dict stays as it was passed.
CompareCall(self, other) ==
    /\ cmp_result = "none"
    /\ cmp_msg' = self
    /\ cmp_passed' = other
    /\ cmp_other' = other
    /\ cmp_result' = IF CompareDict(self, other) THEN "True" ELSE "False"
    /\ UNCHANGED compareFrame

\* ------------------------------------------------- ContinuousnessChecker
\* str(n) for a natural number, as the characters "{}".format() writes.
DigitChar(d) == <<"0", "1", "2", "3", "4", "5", "6", "7", "8", "9">>[d + 1]

RECURSIVE Decimal(_)
Decimal(n) ==
    IF n < 10 THEN <<DigitChar(n)>>
    ELSE Decimal(n \div 10) \o <<DigitChar(n % 10)>>

\* A message as the checker reads it: apid and ctid are strings (sequences of
\* characters), seid and mcnt numbers.
CheckedMessage(apid, ctid, seid, mcnt) ==
    [apid |-> apid, ctid |-> ctid, seid |-> seid, mcnt |-> mcnt]

\* __call__(): 'key = "{}-{}-{}".format(message.apid, message.ctid,
\* message.seid)'.
Key(message) ==
    message.apid \o <<"-">> \o message.ctid \o <<"-">> \o Decimal(message.seid)

\* "_ignore = ["DA1-DC1-0"]".
Ignore == {<<"D", "A", "1", "-", "D", "C", "1", "-", "0">>}

\* "key in self._counter" and "self._counter[key]".
InCounter(counter, key) == \E entry \in counter : entry[1] = key
CounterAt(counter, key) == (CHOOSE entry \in counter : entry[1] = key)[2]

\* "self._counter[key] = message.mcnt".
SetCounter(counter, key, mcnt) ==
    {entry \in counter : entry[1] # key} \cup {<<key, mcnt>>}

\* The ids and messages given to the checker; ids are up to four characters
\* of any kind.
IdX == <<"X">>
IdY == <<"Y">>
IdXY == <<"X", "-", "Y">>
IdYY == <<"Y", "-", "Y">>
IdDA1 == <<"D", "A", "1">>
IdDC1 == <<"D", "C", "1">>
CheckerTriples ==
    {<<IdX, IdY, 99>>, <<IdXY, IdY, 0>>, <<IdX, IdYY, 0>>, <<IdDA1, IdDC1, 0>>}
CheckerCounts == {0, 1, 231, 255}
CheckerMessages ==
    {CheckedMessage(t[1], t[2], t[3], mcnt) :
         t \in CheckerTriples, mcnt \in CheckerCounts}

\* What a call of the checker leaves alone.
checkerFrame == <<cfgVars, handleVars, ackVars, context_map, filter_queue,
                  message_queue, disp_context_map, dlt_time, c_pc, c_item,
                  c_dropped, sub_queue, caller, n_calls, stopVars, sockVars,
                  fileVars, b_data, b_sort, b_msg, b_out, cmp_msg, cmp_passed,
                  cmp_other, cmp_result, d_filter, n_puts,
                   g_pc, g_index,
                   k_log, k_limit,
                   st_prev, st_cur>>

\* ContinuousnessChecker.__call__(message).
CheckerCall(message) ==
    /\ chk_index < MaxChecked
    /\ chk_index' = chk_index + 1
    /\ chk_message' = message
    /\ chk_before' = IF chk_result = "none" THEN <<>>
                     ELSE Append(chk_before, chk_message)
    /\ LET key == Key(message)
       IN IF key \in Ignore
          THEN /\ chk_result' = "return"
               /\ UNCHANGED chk_counter
          ELSE /\ chk_counter' = SetCounter(chk_counter, key, message.mcnt)
               /\ chk_result' =
                      IF /\ InCounter(chk_counter, key)
                         /\ (CounterAt(chk_counter, key) + 1) % 256 # message.mcnt
                      THEN "RuntimeError"
                      ELSE "return"
    /\ UNCHANGED checkerFrame

\* ------------------------------------------------- DLTBroker.stop
\* stop(): the calls it makes, in the order of the code.
StopOrder_DispatcherFirst(ack) == <<"msg_handler.is_alive", "break_blocking_main_loop", "mp_stop_flag.set", "context_handler.stop", "context_handler.join">> \o (IF ack THEN <<"filter_ack_msg_handler.stop", "filter_ack_msg_handler.join">> ELSE <<>>)
StopOrder(ack) ==
    <<"break_blocking_main_loop", "mp_stop_flag.set", "context_handler.stop",
      "context_handler.join">>
    \o (IF ack
        THEN <<"filter_ack_msg_handler.stop", "filter_ack_msg_handler.join">>
        ELSE <<>>)
    \o <<"msg_handler.is_alive">>

\* stop() is at the call named step.
StopAt(step) ==
    /\ stop_pc \in 1..Len(StopOrder(enable_filter_set_ack))
    /\ StopOrder(enable_filter_set_ack)[stop_pc] = step

\* stop() has made the call and goes on to the next one.
StopDone(entry) ==
    /\ stop_pc' = stop_pc + 1
    /\ stop_log' = Append(stop_log, entry)

\* The worker processes and threads, as is_alive() sees them.
ContextHandlerAlive == c_pc # "exit"
AckHandlerAlive == a_pc # "exit"
MsgHandlerAlive == d_pc # "exit"

\* What stop() leaves alone besides the threads' positions and the events.
stopFrame == <<toolVars, sockVars, fileVars, cfgVars, n_handled, d_msg, seen_ts, d_qids, d_enq, d_wrote,
               context_map, filter_queue, message_queue, disp_context_map,
               dlt_time, c_item, c_dropped, sub_queue, caller, n_calls,
               ack_context_map, ack_queue, a_item, recv_call>>

\* The application calls stop() on a started broker.
StopCall ==
    /\ stop_pc = 0
    /\ stop_pc' = 1
    /\ UNCHANGED <<stopFrame, mp_stop_flag, stop_flag, stop_reading_proc,
                   stop_log, filter_ack_queue, c_pc, a_pc, d_pc>>

\* "self.msg_handler.break_blocking_main_loop()": DLTFileSpinner sets the
\* reader's stop_reading_proc, the base class (the socket source) passes.
BreakBlockingMainLoop ==
    /\ StopAt("break_blocking_main_loop")
    /\ stop_reading_proc' = IF source = "file" THEN TRUE ELSE stop_reading_proc
    /\ StopDone("break_blocking_main_loop")
    /\ UNCHANGED <<stopFrame, mp_stop_flag, stop_flag, filter_ack_queue,
                   c_pc, a_pc, d_pc>>

\* "self.mp_stop_flag.set()".
SetStopFlag ==
    /\ StopAt("mp_stop_flag.set")
    /\ mp_stop_flag' = TRUE
    /\ StopDone("mp_stop_flag.set")
    /\ UNCHANGED <<stopFrame, stop_flag, stop_reading_proc, filter_ack_queue,
                   c_pc, a_pc, d_pc>>

\* "self.context_handler.stop()": DLTContextHandler.stop() sets the thread's
\* stop_flag (and closes filter_queue); its wait for the thread is the join
\* that follows.
ContextHandlerStop ==
    /\ StopAt("context_handler.stop")
    /\ stop_flag' = [stop_flag EXCEPT !["context"] = TRUE]
    /\ StopDone("context_handler.stop")
    /\ UNCHANGED <<stopFrame, mp_stop_flag, stop_reading_proc,
                   filter_ack_queue, c_pc, a_pc, d_pc>>

\* "self.join()" in DLTContextHandler.stop() and "self.context_handler.join()":
\* both return once the thread has left run().
ContextHandlerJoin ==
    /\ StopAt("context_handler.join")
    /\ ~ContextHandlerAlive
    /\ StopDone("context_handler.join")
    /\ UNCHANGED <<stopFrame, mp_stop_flag, stop_flag, stop_reading_proc,
                   filter_ack_queue, c_pc, a_pc, d_pc>>

\* "self.filter_ack_msg_handler.stop()": DLTFilterAckMessageHandler.stop() sets
\* the thread's stop_flag and puts (None, None) to wake the blocking get().
AckHandlerStop ==
    /\ StopAt("filter_ack_msg_handler.stop")
    /\ PutReady(filter_ack_queue)
    /\ stop_flag' = [stop_flag EXCEPT !["ack"] = TRUE]
    /\ filter_ack_queue' = Append(filter_ack_queue, <<None, None>>)
    /\ StopDone("filter_ack_msg_handler.stop")
    /\ UNCHANGED <<stopFrame, mp_stop_flag, stop_reading_proc, c_pc, a_pc,
                   d_pc>>

\* "self.join()" in DLTFilterAckMessageHandler.stop() and
\* "self.filter_ack_msg_handler.join()".
AckHandlerJoin ==
    /\ StopAt("filter_ack_msg_handler.join")
    /\ ~AckHandlerAlive
    /\ StopDone("filter_ack_msg_handler.join")
    /\ UNCHANGED <<stopFrame, mp_stop_flag, stop_flag, stop_reading_proc,
                   filter_ack_queue, c_pc, a_pc, d_pc>>

\* "if self.msg_handler.is_alive(): ... terminate() ... join()": a worker that is
\* still running is terminated (and joined unless terminate() raised OSError),
\* one that has ended is left as it is.
MsgHandlerEnd ==
    /\ StopAt("msg_handler.is_alive")
    /\ d_pc' = "exit"
    /\ StopDone(IF MsgHandlerAlive THEN "msg_handler.terminate"
                ELSE "msg_handler.ended")
    /\ UNCHANGED <<stopFrame, mp_stop_flag, stop_flag, stop_reading_proc,
                   filter_ack_queue, c_pc, a_pc>>

\* DLTContextHandler.run(): "while not self.stop_flag.is_set()" ends the thread.
ContextHandlerExit ==
    /\ c_pc = "get"
    /\ stop_flag["context"]
    /\ c_pc' = "exit"
    /\ UNCHANGED <<stopFrame, stopVars, filter_ack_queue, a_pc, d_pc>>

\* DLTFilterAckMessageHandler.run(): "while not self.stop_flag.is_set()" ends
\* the thread when it is not inside the blocking get().
AckHandlerExit ==
    /\ a_pc = "get"
    /\ stop_flag["ack"]
    /\ a_pc' = "exit"
    /\ UNCHANGED <<stopFrame, stopVars, filter_ack_queue, c_pc, d_pc>>

\* DLTMessageHandler.run() and DLTFileSpinner.run(): "while not
\* self.mp_stop_flag.is_set()" ends the worker between two handle() calls.
MsgHandlerExit ==
    /\ d_pc = "idle"
    /\ mp_stop_flag
    /\ d_pc' = "exit"
    /\ UNCHANGED <<stopFrame, stopVars, filter_ack_queue, c_pc, a_pc>>

\* ------------------------------------------------- specifications
\* The state after DLTBroker.__init__ and start(), but for the configuration.
InitState ==
    /\ context_map = [q \in QueueIds |-> NoEntry]
    /\ filter_queue = <<>>
    /\ message_queue = <<>>
    /\ disp_context_map = <<>>
    /\ n_handled = 0
    /\ d_msg = NoneMsg
    /\ seen_ts = {}
    /\ d_pc = "idle"
    /\ d_qids = <<>>
    /\ d_enq = <<>>
    /\ d_wrote = FALSE
    /\ c_pc = "get"
    /\ c_item = <<None, NoneMsg>>
    /\ c_dropped = 0
    /\ sub_queue = [q \in QueueIds |-> <<>>]
    /\ caller = [q \in QueueIds |-> IdleCaller]
    /\ n_calls = 0
    /\ filter_ack_queue = <<>>
    /\ ack_context_map = {}
    /\ ack_queue = [a \in AckIds |-> <<>>]
    /\ a_pc = "get"
    /\ a_item = <<None, FALSE>>
    /\ recv_call = [queue |-> <<>>, required_response |-> TRUE,
                    result |-> "none"]
    /\ dlt_time = 0
    /\ stop_pc = 0
    /\ mp_stop_flag = FALSE
    /\ stop_flag = [t \in {"context", "ack"} |-> FALSE]
    /\ stop_reading_proc = FALSE
    /\ stop_log = <<>>
    /\ dumped = <<>>
    /\ connected = FALSE
    /\ k_pc = "run"
    /\ bad_messages = 0
    /\ k_msg = NoFrame
    /\ k_res = "none"
    /\ k_why = "none"
    /\ n_malformed = 0
    /\ file = <<>>
    /\ mtime = 1
    /\ f_pc = "closed"
    /\ file_position = 0
    /\ cached_mtime = 0
    /\ cached_file_pos = 0
    /\ corruption_check_try = TRUE
    /\ found_data = FALSE
    /\ corrupt_msg_count = 0
    /\ yielded = <<>>
    /\ polls_after_stop = 0
    /\ written_after_stop = 0
    /\ chk_index = 0
    /\ chk_counter = {}
    /\ chk_result = "none"
    /\ chk_message = <<>>
    /\ chk_before = <<>>
    /\ b_sort = NoSort
    /\ b_msg = NoMessage
    /\ b_out = <<>>
    /\ cmp_msg = NoCompared
    /\ cmp_passed = <<>>
    /\ cmp_other = <<>>
    /\ cmp_result = "none"
    /\ d_filter = <<>>
    /\ n_puts = 0
    /\ g_pc = "closed"
    /\ g_index = <<>>
    /\ k_log = <<>>
    /\ k_limit = [none |-> TRUE, n |-> 0]
    /\ st_prev = [set |-> FALSE, seconds |-> 0, microseconds |-> 0, num |-> 0, den |-> 1]
    /\ st_cur = [set |-> FALSE, seconds |-> 0, microseconds |-> 0, num |-> 0, den |-> 1]

\* The steps of the threads that call register, add_context and unregister,
\* with the filter arguments drawn from args.
CallerSteps(args) ==
    \/ \E q \in QueueIds, f \in args : RegisterInsert(q, f)
    \/ \E q \in QueueIds, f \in args : AddContext(q, f)
    \/ \E q \in QueueIds : RegisterPut(q)
    \/ \E q \in QueueIds : UnregisterRemove(q)
    \/ \E q \in QueueIds : UnregisterPut(q)

\* The steps of the dispatcher process: its main loop calls handle() with a
\* message out of the given ones, or with None.
DispatcherSteps(messages) ==
    \/ \E m \in MessagesAt(messages) \cup {NoneMsg} : HandleStart(m)
    \/ ProcessFilterQueue
    \/ HandleValidate
    \/ HandleEnqueue
    \/ HandleTime

\* The steps of the context handler thread.
ContextHandlerSteps ==
    \/ RunGet
    \/ RunPut

\* The whole broker, without filter acks: callers, dispatcher and context
\* handler.  The source delivers messages of one timestamp.
Init ==
    /\ InitState
    /\ source \in {"socket", "file"}
    /\ enable_dlt_time = TRUE
    /\ tracefile = FALSE
    /\ live_run = TRUE
    /\ enable_filter_set_ack = FALSE
    /\ ignore_filter_set_ack_timeout = FALSE
    /\ b_data = <<>>

Next ==
    \/ CallerSteps(PipelineArgs)
    \/ DispatcherSteps(PipelineMessages)
    \/ ContextHandlerSteps

Spec == Init /\ [][Next]_vars

\* The dispatcher and the callers that feed its control channel, on a socket
\* or on a file.
InitDispatch ==
    /\ InitState
    /\ source \in {"socket", "file"}
    /\ enable_dlt_time = TRUE
    /\ tracefile = FALSE
    /\ live_run = TRUE
    /\ enable_filter_set_ack = FALSE
    /\ ignore_filter_set_ack_timeout = FALSE
    /\ b_data = <<>>

NextDispatch ==
    \/ CallerSteps(RegisterArgs)
    \/ DispatcherSteps(SourceMessages)

SpecDispatch == InitDispatch /\ [][NextDispatch]_vars

\* The steps of add_context with filter acks, of register() called with no
\* filters and no ack queue, of remove_context, and direct calls of
\* _recv_filter_set_ack on a queue holding at most one ack.
AckCallerSteps(args) ==
    \/ \E q \in QueueIds, f \in args : AddContext(q, f)
    \/ \E q \in QueueIds : RegisterInsert(q, NoFilters)
    \/ \E q \in QueueIds : AddContextRegister(q)
    \/ \E q \in QueueIds : RegisterPut(q)
    \/ \E q \in QueueIds : AddContextRecv(q)
    \/ \E q \in QueueIds : AddContextExit(q)
    \/ \E q \in QueueIds : UnregisterRemove(q)
    \/ \E q \in QueueIds : UnregisterPut(q)
    \/ \E queue \in {<<>>, <<TRUE>>, <<FALSE>>}, required_response \in BOOLEAN :
          RecvFilterSetAckCall(queue, required_response)

\* The steps of the ack handler thread.
AckHandlerSteps ==
    \/ AckGet
    \/ AckForward

\* A broker with filter acks enabled, which raises on an ack timeout or
\* ignores it.
InitAck ==
    /\ InitState
    /\ source = "socket"
    /\ enable_dlt_time = TRUE
    /\ tracefile = FALSE
    /\ live_run = TRUE
    /\ enable_filter_set_ack = TRUE
    /\ ignore_filter_set_ack_timeout \in BOOLEAN
    /\ b_data = <<>>

NextAck ==
    \/ AckCallerSteps(AckArgs)
    \/ DispatcherSteps(AckMessages)
    \/ AckHandlerSteps

SpecAck == InitAck /\ [][NextAck]_vars

\* stop() called on a started broker whose workers are running.
InitStop ==
    /\ InitState
    /\ source \in {"socket", "file"}
    /\ enable_dlt_time \in BOOLEAN
    /\ tracefile = FALSE
    /\ live_run = TRUE
    /\ enable_filter_set_ack \in BOOLEAN
    /\ ignore_filter_set_ack_timeout = FALSE
    /\ b_data = <<>>

NextStop ==
    \/ StopCall
    \/ BreakBlockingMainLoop
    \/ SetStopFlag
    \/ ContextHandlerStop
    \/ ContextHandlerJoin
    \/ AckHandlerStop
    \/ AckHandlerJoin
    \/ MsgHandlerEnd
    \/ ContextHandlerExit
    \/ AckHandlerExit
    \/ MsgHandlerExit
    \/ AckHandlerSteps

SpecStop == InitStop /\ [][NextStop]_vars

\* The socket worker, with and without a tracefile, until stop() sets the flag.
InitSocket ==
    /\ InitState
    /\ source = "socket"
    /\ enable_dlt_time = FALSE
    /\ enable_filter_set_ack = FALSE
    /\ ignore_filter_set_ack_timeout = FALSE
    /\ tracefile \in BOOLEAN
    /\ live_run = TRUE
    /\ b_data = <<>>

NextSocket ==
    \/ ClientConnect
    \/ RunExit
    \/ MainLoopTop
    \/ ReadMessage
    \/ MessageSave
    \/ MessageCallback
    \/ LoopCheck
    \/ RunResult
    \/ StopCall
    \/ BreakBlockingMainLoop
    \/ SetStopFlag

SpecSocket == InitSocket /\ [][NextSocket]_vars

\* A DLT file iterated in batch or in live mode while it is written and, in
\* live mode, until stop() sets the reader's stop event.
InitFile ==
    /\ InitState
    /\ source = "file"
    /\ enable_dlt_time = FALSE
    /\ enable_filter_set_ack = FALSE
    /\ ignore_filter_set_ack_timeout = FALSE
    /\ tracefile = FALSE
    /\ live_run \in BOOLEAN
    /\ b_data = <<>>

NextFile ==
    \/ WriteFrame
    \/ WriteJunk
    \/ IterSteps
    \/ live_run /\ StopCall
    \/ BreakBlockingMainLoop

\* The iteration runs in a thread of its own and is not starved.
SpecFile == InitFile /\ [][NextFile]_vars /\ WF_vars(IterSteps)

\* The configuration, which the helper objects do not read.
InitTool ==
    /\ InitState
    /\ source = "file"
    /\ enable_dlt_time = FALSE
    /\ enable_filter_set_ack = FALSE
    /\ ignore_filter_set_ack_timeout = FALSE
    /\ tracefile = FALSE
    /\ live_run = FALSE

\* A ContinuousnessChecker called on one message after the other.
InitChecker ==
    /\ InitTool
    /\ b_data = <<>>

NextChecker == \E message \in CheckerMessages : CheckerCall(message)

SpecChecker == InitChecker /\ [][NextChecker]_vars

\* A dispatcher on its own: filter messages are put on its filter queue and
\* handle(None) is called, as the main loops do when they poll.
InitIndex ==
    /\ InitState
    /\ source = "file"
    /\ enable_dlt_time = FALSE
    /\ tracefile = FALSE
    /\ live_run = FALSE
    /\ enable_filter_set_ack \in BOOLEAN
    /\ ignore_filter_set_ack_timeout = FALSE
    /\ b_data = <<>>

NextIndex ==
    \/ \E msg \in IndexMsgs : FilterQueuePut(msg)
    \/ HandleStart(NoneMsg)
    \/ FilterApply
    \/ FilterAck
    \/ HandleValidate

SpecIndex == InitIndex /\ [][NextIndex]_vars

\* The iteration over a file in batch mode; the iteration is not starved.
InitBatch ==
    /\ InitFile
    /\ live_run = FALSE

NextBatch ==
    \/ \E segments \in IndexedFiles \ {<<>>} : FileGiven(segments)
    \/ IterSteps

SpecBatch == InitBatch /\ [][NextBatch]_vars /\ WF_vars(IterSteps)

\* generate_index() called on a file.
NextGenerateIndex ==
    \/ \E segments \in IndexedFiles : GenerateIndexOpen(segments)
    \/ IndexRead
    \/ IndexRecover

SpecGenerateIndex == InitChecker /\ [][NextGenerateIndex]_vars

\* DLTMessage.compare called with dicts.
NextCompare ==
    \E self \in ComparedMessages, other \in ComparedDicts : CompareCall(self, other)

SpecCompare == InitChecker /\ [][NextCompare]_vars

\* The functions of DLTMessage on the bytes of one stored frame.
InitBytes ==
    /\ InitTool
    /\ b_data \in StoredFrames

NextBytes ==
    \/ CallExtractSortData
    \/ CallFromBytes
    \/ CallToBytes

SpecBytes == InitBytes /\ [][NextBytes]_vars

\* ------------------------------------------------- properties
\* The queue ids that handle() has finished for a message it took as valid.
HandleDone == d_pc = "idle" /\ n_handled > 0 /\ IsValidMessage(d_msg)

\* The reverse index maps one of the four keys of message to q.
IndexMatches(q, message) ==
    \E key \in { <<message.apid, message.ctid>>, <<message.apid, None>>,
                 <<None, message.ctid>>, <<None, None>> } :
        InList(QueueIdsOf(disp_context_map, key), q)

\* The entries at the end of the message channel are those of d_enq.
EnqueuedAtEnd ==
    /\ Len(d_enq) <= Len(message_queue)
    /\ \A i \in 1..Len(d_enq) :
          message_queue[Len(message_queue) - Len(d_enq) + i] = <<d_enq[i], d_msg>>

\* C1: handle(m) of a valid message m enqueues an entry (q, m) on the message
\* channel exactly for the subscriber ids q that the reverse index maps one of
\* the keys (A, C), (A, None), (None, C), (None, None) to; while the loop runs
\* only such ids have been enqueued.
C1_DispatchByFourKeys ==
    /\ HandleDone =>
          /\ \A q \in QueueIds : InList(d_enq, q) <=> IndexMatches(q, d_msg)
          /\ EnqueuedAtEnd
    /\ d_pc = "dispatch" =>
          /\ \A q \in QueueIds : InList(d_enq, q) => IndexMatches(q, d_msg)
          /\ EnqueuedAtEnd

\* handle() has enqueued a message for one subscriber and not for another
\* that is in the index under other keys.
C1_Witness ==
    /\ HandleDone
    /\ \E q1, q2 \in QueueIds :
          /\ InList(d_enq, q1)
          /\ ~InList(d_enq, q2)
          /\ \E i \in 1..Len(disp_context_map) :
                InList(disp_context_map[i].qids, q2)

\* C2: on every subscriber queue the messages stand in the order in which the
\* dispatcher handled them (n is the place of a message in that order).
C2_DeliveryInSourceOrder ==
    \A q \in QueueIds :
        \A i, j \in 1..Len(sub_queue[q]) :
            i < j => sub_queue[q][i].n <= sub_queue[q][j].n

\* A subscriber has got two messages, and the other subscriber has registered
\* or unregistered meanwhile.
C2_Witness ==
    \E q1, q2 \in QueueIds :
        /\ q1 # q2
        /\ Len(sub_queue[q1]) >= 2
        /\ sub_queue[q1][1].n < Last(sub_queue[q1]).n
        /\ caller[q2].last # "none"

\* C3: once unregister(queue) has returned, having removed the queue, the
\* context handler puts no further message on that queue.
C3_NoPutAfterUnregister ==
    [][\A q \in QueueIds :
          (/\ caller[q].pc = "idle"
           /\ caller[q].last = "unregister"
           /\ ~context_map[q].present)
          => sub_queue'[q] = sub_queue[q]]_vars

\* C4: the time cell holds 0 or the storage timestamp of a message handle()
\* has been called with, and after handle(m) has returned for a valid m it
\* holds m.storage_timestamp.
C4_TimeIsLastDispatched ==
    enable_dlt_time =>
        /\ dlt_time = 0 \/ dlt_time \in seen_ts
        /\ HandleDone => dlt_time = d_msg.storage_timestamp

\* The time cell holds the timestamp of the last message although a message
\* of another timestamp was handled before it.
C4_Witness ==
    /\ HandleDone
    /\ seen_ts = {1, 2}
    /\ dlt_time = d_msg.storage_timestamp
    /\ n_handled >= 2

\* The storage timestamps of the messages offered to some subscriber: in the
\* runs of the dispatcher alone nothing is taken from the message channel.
OfferedTimestamps ==
    {message_queue[i][2].storage_timestamp : i \in 1..Len(message_queue)}

\* C5 as stated: whenever the time cell holds the timestamp of a message, some
\* subscriber has been offered a message with that timestamp.
C5_Original == dlt_time # 0 => dlt_time \in OfferedTimestamps

\* C5: the time cell is written only after the enqueue loop of the message:
\* when handle() has written the timestamp of a message, every subscriber the
\* index matches (there may be none) has had its entry for it enqueued.
C5_TimeAfterEnqueue ==
    d_wrote =>
        /\ d_msg # NoneMsg
        /\ dlt_time = d_msg.storage_timestamp
        /\ \A q \in QueueIds : IndexMatches(q, d_msg) => InList(d_enq, q)
        /\ EnqueuedAtEnd

\* handle() has written the time after enqueuing the message for two
\* subscribers.
C5_Witness ==
    /\ d_wrote
    /\ \A q \in QueueIds : InList(d_enq, q)
    /\ dlt_time \in OfferedTimestamps

\* handle() was called with a message whose apid and ctid are both empty.
EmptyIds == d_msg # NoneMsg /\ d_msg.apid = "" /\ d_msg.ctid = ""

\* C6: a message with empty apid and ctid is enqueued for no subscriber and
\* its timestamp is not published on a socket; on a file it is dispatched to
\* the matching subscribers and its timestamp is published.
C6_EmptyIdsBySource ==
    (n_handled > 0 /\ EmptyIds) =>
        IF source = "socket"
        THEN d_enq = <<>> /\ ~d_wrote /\ d_pc # "dispatch"
        ELSE d_pc = "idle" =>
                /\ \A q \in QueueIds :
                      InList(d_enq, q) <=> IndexMatches(q, d_msg)
                /\ EnqueuedAtEnd
                /\ d_wrote /\ dlt_time = d_msg.storage_timestamp

\* The file dispatcher has enqueued a message with empty ids for a subscriber
\* and left out a subscriber with other filters.
C6_Witness ==
    /\ source = "file"
    /\ n_handled > 0 /\ EmptyIds /\ d_pc = "idle"
    /\ \E q1, q2 \in QueueIds :
          /\ InList(d_enq, q1)
          /\ ~InList(d_enq, q2)
          /\ \E i \in 1..Len(disp_context_map) :
                InList(disp_context_map[i].qids, q2)

\* The filter list register() works with: the one given, or [(None, None)]
\* when filters is omitted.
C7_Filters(q) ==
    IF caller[q].arg.none THEN << <<None, None>> >> ELSE caller[q].arg.list

\* The add message register() is to publish.
C7_AddMsg(q) ==
    IF caller[q].ack = None THEN <<q, C7_Filters(q), TRUE>>
    ELSE <<q, caller[q].ack, C7_Filters(q), TRUE>>

\* C7: register() publishes its add message when the queue is in the
\* subscriber map with the filters; the message is (id, filters, True), or
\* (id, ack id, filters, True) when an ack queue is given; it is the only one
\* the call publishes; omitted filters are [(None, None)] in both.
C7_RegisterInsertsThenPublishes ==
    /\ [][\A q \in QueueIds :
            (caller[q].pc = "register_put" /\ caller'[q].pc # "register_put")
            => /\ context_map[q] = Entry(C7_Filters(q))
               /\ context_map'[q] = context_map[q]
               /\ filter_queue' = Append(filter_queue, C7_AddMsg(q))]_vars
    /\ [](\A q \in QueueIds :
            /\ caller[q].pc = "register_put" =>
                  /\ caller[q].sent = <<>>
                  /\ context_map[q] = Entry(C7_Filters(q))
            /\ (\/ caller[q].pc = "ack_wait"
                \/ caller[q].pc = "idle" /\ caller[q].last = "register")
               => caller[q].sent = <<C7_AddMsg(q)>>)

\* One register() has published with an ack queue and another, called with no
\* filters, without one.
C7_Witness ==
    \E q1, q2 \in QueueIds :
        /\ caller[q1].pc = "ack_wait"
        /\ Len(caller[q1].sent) = 1 /\ Len(caller[q1].sent[1]) = 4
        /\ caller[q2].pc = "idle" /\ caller[q2].last = "register"
        /\ caller[q2].arg.none
        /\ caller[q2].sent = << <<q2, << <<None, None>> >>, TRUE>> >>

\* C8 as stated: after unregister(queue) has returned the queue is not in the
\* subscriber map; if it was registered, one remove message with its filters
\* was published, and else none.
C8_Original ==
    \A q \in QueueIds :
        (caller[q].pc = "idle" /\ caller[q].last = "unregister") =>
            /\ ~context_map[q].present
            /\ caller[q].sent =
                  IF caller[q].arg.none THEN <<>>
                  ELSE << <<q, caller[q].arg.list, FALSE>> >>

\* C9: when run() takes an entry whose id is not in the subscriber map, it
\* puts nothing on any subscriber queue and is back at the top of its loop,
\* ready for the entry behind it.
C9_UnknownIdDropped ==
    [][(/\ c_pc = "get"
        /\ message_queue # <<>>
        /\ message_queue' = Tail(message_queue)
        /\ ~context_map[Head(message_queue)[1]].present)
       => /\ sub_queue' = sub_queue
          /\ c_pc' = "get"
          /\ c_item' = <<None, NoneMsg>>]_vars

\* run() has dropped the entry of an unregistered subscriber and delivered the
\* entry of the same message to the other subscriber.
C9_Witness ==
    /\ c_dropped > 0
    /\ c_pc = "get"
    /\ message_queue = <<>>
    /\ \E q1, q2 \in QueueIds :
          /\ ~context_map[q1].present /\ sub_queue[q1] = <<>>
          /\ sub_queue[q2] # <<>>
          /\ Last(sub_queue[q2]).n = c_dropped

\* What the ack wait is to give on a queue and a required response.
C10_Expected(queue, required_response) ==
    IF queue = <<>>
    THEN (IF ignore_filter_set_ack_timeout THEN "None" ELSE "Empty")
    ELSE (IF Head(queue) = required_response THEN "True" ELSE "False")

\* C10: with no ack on the ack queue the wait raises queue.Empty, and so does
\* add_context, unless ignore_filter_set_ack_timeout is set: then the wait
\* returns None and add_context returns; an ack counts as success only if it
\* equals the required response.
C10_AckWait ==
    /\ [][\A q \in QueueIds :
            (caller[q].pc = "ack_wait" /\ caller'[q].pc # "ack_wait")
            => caller'[q].result =
                  C10_Expected(ack_queue[caller[q].ack], TRUE)]_vars
    /\ [](/\ recv_call.result # "none" =>
                recv_call.result =
                    C10_Expected(recv_call.queue, recv_call.required_response)
          /\ \A q \in QueueIds :
                /\ caller[q].last = "add_context_raised" <=>
                      (caller[q].pc = "idle" /\ caller[q].result = "Empty")
                /\ caller[q].result = "Empty" =>
                      ~ignore_filter_set_ack_timeout
                /\ caller[q].result = "None" =>
                      ignore_filter_set_ack_timeout)

\* One add_context has raised on the timeout and another has got its ack.
C10_Witness ==
    /\ \E q1, q2 \in QueueIds :
          /\ caller[q1].last = "add_context_raised"
          /\ caller[q2].last = "add_context" /\ caller[q2].result = "True"

\* C11 as stated: with filter acks enabled, the remove message that
\* remove_context publishes carries an ack id, as the add message of
\* add_context does.
C11_Original ==
    \A q \in QueueIds :
        (/\ enable_filter_set_ack
         /\ caller[q].pc = "idle"
         /\ caller[q].last = "unregister"
         /\ caller[q].sent # <<>>)
        => Len(caller[q].sent[1]) = 4

\* C13: the message channel never holds more than its capacity; while it is
\* full the dispatcher stays at its put with the entry still to enqueue; a
\* queue id leaves the ids to enqueue only by its entry being put on the
\* channel.
C13_BoundedChannelBlocks ==
    /\ [](Len(message_queue) <= MaxQueue)
    /\ [][(d_pc = "dispatch" /\ d_qids # <<>>) =>
             \/ d_pc' = d_pc /\ d_qids' = d_qids /\ d_enq' = d_enq
             \/ /\ Len(message_queue) < MaxQueue
                /\ message_queue' =
                      Append(message_queue, <<Head(d_qids), d_msg>>)
                /\ d_qids' = Tail(d_qids)
                /\ d_pc' = d_pc]_vars

\* The channel is full and the dispatcher waits with an entry to enqueue.
C13_Witness ==
    /\ Len(message_queue) = MaxQueue
    /\ d_pc = "dispatch"
    /\ d_qids # <<>>

\* C20 as stated: a subscriber whose filter list was given empty has no
\* message enqueued for it.
C20_Original ==
    [][\A q \in QueueIds :
          (/\ caller[q].pc = "idle"
           /\ caller[q].last = "register"
           /\ caller[q].arg = Filters(<<>>)
           /\ d_pc = "dispatch" /\ d_qids # <<>>
           /\ d_qids' = Tail(d_qids))
          => Head(d_qids) # q]_vars

\* The calls of stop() that come before the dispatcher worker is dealt with.
C12_Expected ==
    <<"break_blocking_main_loop", "mp_stop_flag.set", "context_handler.stop",
      "context_handler.join">>
    \o (IF enable_filter_set_ack
        THEN <<"filter_ack_msg_handler.stop", "filter_ack_msg_handler.join">>
        ELSE <<>>)

IsPrefix(s, t) ==
    /\ Len(s) <= Len(t)
    /\ \A i \in 1..Len(s) : s[i] = t[i]

\* C12: stop() calls the dispatcher's break_blocking_main_loop hook, then sets
\* the shared stop flag, then stops the context handler and waits until its
\* thread has ended, then (with acks enabled) stops the ack handler and waits
\* until its thread has ended, and only after all of that terminates the
\* dispatcher worker if it is still alive.
C12_StopOrder ==
    /\ \/ IsPrefix(stop_log, C12_Expected)
       \/ \E end \in {"msg_handler.terminate", "msg_handler.ended"} :
              stop_log = C12_Expected \o <<end>>
    /\ mp_stop_flag =>
           /\ stop_log[1] = "break_blocking_main_loop"
           /\ source = "file" => stop_reading_proc
    /\ stop_flag["context"] => mp_stop_flag
    /\ stop_flag["ack"] =>
           /\ enable_filter_set_ack
           /\ stop_flag["context"]
           /\ ~ContextHandlerAlive
    /\ Len(stop_log) > Len(C12_Expected) =>
           /\ ~ContextHandlerAlive
           /\ enable_filter_set_ack => stop_flag["ack"] /\ ~AckHandlerAlive
    /\ (Len(stop_log) <= Len(C12_Expected) /\ ~mp_stop_flag) => MsgHandlerAlive

C12_Witness ==
    /\ enable_filter_set_ack
    /\ stop_log = C12_Expected \o <<"msg_handler.terminate">>
    /\ ~ContextHandlerAlive
    /\ ~AckHandlerAlive

\* The reasons for which the claim has the connection restarted.
C14_Reasons == {"closed", "socket_error", "threshold"}

\* C14: when py_dlt_client_main_loop() ended because the connection was closed,
\* a socket error occurred or bad_messages passed the threshold, and the stop
\* flag is not set, run() disconnects the client and goes back to connecting;
\* while the flag is not set a failed connect leads to another connect and a
\* successful one to a new receive loop, and only the flag ends the worker.
C14_Reconnect ==
    /\ []((k_pc = "returned" /\ k_why \in C14_Reasons)
            => k_res \in {"False", "raise"})
    /\ [][(k_pc = "returned" /\ k_why \in C14_Reasons /\ ~mp_stop_flag
           /\ k_pc' # k_pc)
          => (~connected' /\ k_pc' = "run")]_vars
    /\ []((k_pc = "run" /\ ~mp_stop_flag) => ~connected)
    /\ [][(k_pc = "run" /\ ~mp_stop_flag')
          => \/ k_pc' = "run" /\ ~connected'
             \/ k_pc' = "main_loop" /\ connected' /\ bad_messages' = 0]_vars
    /\ [][k_pc' = "exit" => mp_stop_flag]_vars

C14_Witness ==
    /\ k_why = "threshold"
    /\ k_pc = "read"
    /\ connected
    /\ ~mp_stop_flag

\* C15 as stated: the receive loop does not go on to receive once more than
\* BadLimit malformed frames have come in during the session, it returns False.
C15_Original ==
    [][(k_pc = "main_loop" /\ n_malformed > BadLimit /\ k_pc' # k_pc)
       => (k_pc' = "returned" /\ k_res' = "False")]_vars

\* C16: with a tracefile, the tracefile is only appended to, and a frame is
\* passed to the callback only when its bytes are the last ones written to
\* the tracefile.
C16_SinkBeforeDispatch ==
    /\ [][IsPrefix(dumped, dumped')]_vars
    /\ []((tracefile /\ k_pc = "callback")
            => (dumped # <<>> /\ Last(dumped) = ToBytes(k_msg)))
    /\ [][(tracefile /\ k_msg # NoFrame /\ k_pc \in {"callback", "check"}
           /\ k_pc' # k_pc)
          => (dumped # <<>> /\ Last(dumped) = ToBytes(k_msg))]_vars

C16_Witness ==
    /\ tracefile
    /\ k_pc = "read"
    /\ k_msg = EmptyFrame
    /\ dumped = <<ToBytes(GoodFrame), ToBytes(EmptyFrame)>>

\* The file holds complete frames only.
NoJunk(segments) == \A i \in 1..Len(segments) : segments[i].kind = "frame"

\* C17: a file opened empty in live mode to which frames are appended: what
\* has been yielded is always the first frames of the file, in file order and
\* each once; the iteration does not end (neither returns nor raises) before
\* the stop event is set; and unless the stop event is set every frame written
\* is eventually yielded.
C17_Tailing ==
    /\ []((live_run /\ NoJunk(file)) => IsPrefix(yielded, FrameIds(file)))
    /\ []((live_run /\ f_pc \in {"done", "raised"}) => stop_reading_proc)
    /\ (live_run /\ NoJunk(file))
           ~> (stop_reading_proc \/ ~NoJunk(file) \/ yielded = FrameIds(file))

C17_Witness ==
    /\ live_run
    /\ ~stop_reading_proc
    /\ cached_mtime > 2
    /\ f_pc = "loop"
    /\ file = <<FrameSegment(1), FrameSegment(2), FrameSegment(3)>>
    /\ yielded = <<1, 2, 3>>

\* The runs of random bytes of the file that a frame follows.
JunkRuns(segments) ==
    Cardinality({i \in 1..Len(segments) :
                     i < Len(segments) /\ segments[i].kind = "junk"})

\* C18 as stated: an iteration in batch mode that has ended has yielded every
\* frame of the file in file order, and has counted one corrupt message for
\* each run of random bytes that precedes or separates frames.
C18_Original ==
    (~live_run /\ f_pc \in {"done", "raised"})
        => (yielded = FrameIds(file) /\ corrupt_msg_count = JunkRuns(file))

\* C19 as stated: the passes of the poll loop made after the stop event was
\* set are bounded by what the file held when it was set, whatever is
\* appended afterwards.
C19_Original ==
    live_run => polls_after_stop <= (Len(file) - written_after_stop) + 2

\* The apid, ctid and seid of a message.
Triple(message) == <<message.apid, message.ctid, message.seid>>

\* The earlier messages with the triple of the last one.
SameTriple ==
    SelectSeq(chk_before, LAMBDA earlier : Triple(earlier) = Triple(chk_message))

\* C21 as stated: a call raises RuntimeError exactly when the triple is not
\* the control triple, an earlier message had the same triple, and mcnt is
\* not the mcnt of the last such message plus one modulo 256.
C21_Original ==
    chk_result # "none" =>
        (chk_result = "RuntimeError" <=>
            /\ Triple(chk_message) # <<IdDA1, IdDC1, 0>>
            /\ SameTriple # <<>>
            /\ chk_message.mcnt # (Last(SameTriple).mcnt + 1) % 256)

\* C22 as stated: extract_sort_data(b) returns the timestamp, the apid and the
\* ctid that decoding b gives, and the length of b.
C22_Original ==
    b_sort # NoSort =>
        b_sort = SortData(MessageTmsp(FromBytes(b_data)), Len(b_data),
                          MessageApid(FromBytes(b_data)),
                          MessageCtid(FromBytes(b_data)))

\* C23 as stated: to_bytes() of the message made by from_bytes(b) is b.
C23_Original == b_out # <<>> => b_out = b_data

\* C24: every item of the dict whose value is not None matches the message's
\* attribute: equal, or found by the pattern.
C24_Matches ==
    \A key \in DOMAIN cmp_passed :
        \/ cmp_passed[key].type = "None"
        \/ IF cmp_passed[key].type = "pattern"
           THEN Search(cmp_passed[key], GetAttr(cmp_msg, key))
           ELSE SameValue(GetAttr(cmp_msg, key), cmp_passed[key])

\* C24 as stated: compare() with a dict returns True exactly when every given
\* attribute that is not None matches, zero and empty values included, and
\* leaves the dict as it was.
C24_Original ==
    cmp_result # "none" =>
        /\ (cmp_result = "True") <=> C24_Matches
        /\ cmp_other = cmp_passed

\* C25: the list the reverse index is to hold under key after the filter
\* message msg was processed on the index cm.
C25_List(cm, msg, key) ==
    LET m == FilterMsg(msg)
        list == QueueIdsOf(cm, key)
        named == \E i \in 1..Len(m.filters) : m.filters[i] = key
    IN IF ~named THEN list
       ELSE IF m.add THEN Append(list, m.queue_id)
       ELSE IF InList(list, m.queue_id) THEN ListRemove(list, m.queue_id)
       ELSE list

\* The keys of the filter messages.
C25_Keys == UNION {{f[i] : i \in 1..Len(f)} : f \in IndexFilterLists}

\* C25 as stated: an add appends the queue id to the list of every key of the
\* message, a remove takes it out of the list of every key of the message and
\* deletes the keys whose list becomes empty, all other entries stay, and a
\* remove of what was never added changes nothing.
C25_Original ==
    [][(d_pc = "filters" /\ d_pc' = "ack")
         => \A key \in C25_Keys :
               /\ QueueIdsOf(disp_context_map', key)
                    = C25_List(disp_context_map, Head(filter_queue), key)
               /\ HasKey(disp_context_map', key)
                    <=> C25_List(disp_context_map, Head(filter_queue), key) # <<>>]_vars

\* C26: with an ack channel, the pass over a filter message with an ack id
\* publishes the one ack (ack id, add flag) at its end, after the change of
\* that message was applied to the reverse index, and nothing else publishes
\* an ack; a message without an ack id, or a dispatcher without ack channel,
\* publishes none.
C26_OneAckAfterChange ==
    [][/\ (d_pc = "filters" /\ d_pc' = "ack")
          => /\ d_filter' = Head(filter_queue)
             /\ disp_context_map' = ApplyFilterMsg(disp_context_map, d_filter')
             /\ filter_ack_queue' = filter_ack_queue
       /\ (d_pc = "ack" /\ d_pc' = "filters")
          => /\ disp_context_map' = disp_context_map
             /\ filter_ack_queue' =
                   IF enable_filter_set_ack /\ Len(d_filter) = 4
                   THEN Append(filter_ack_queue, <<d_filter[2], d_filter[4]>>)
                   ELSE filter_ack_queue
       /\ filter_ack_queue' # filter_ack_queue
          => (d_pc = "ack" /\ d_pc' = "filters")]_vars

\* The ack of a remove message was published, after acks of other messages.
C26_Witness ==
    /\ d_pc = "filters"
    /\ Len(d_filter) = 4
    /\ Len(filter_ack_queue) = 2
    /\ Last(filter_ack_queue) = <<"a1", FALSE>>
    /\ n_puts = 3

\* C27: the ack handler puts the flag of the ack it took from the ack channel
\* on the ack queue registered under the ack's id and on no other queue; an
\* ack whose id is not registered changes no queue; in both cases the handler
\* goes on to take the next ack.
C27_ForwardToRegistered ==
    [][/\ (a_pc = "get" /\ a_pc' = "forward")
          => /\ a_item' = Head(filter_ack_queue)
             /\ filter_ack_queue' = Tail(filter_ack_queue)
             /\ ack_queue' = ack_queue
       /\ (a_pc = "forward" /\ a_pc' # "forward")
          => /\ a_pc' = "get"
             /\ \A a \in AckIds :
                   ack_queue'[a] =
                      IF a = a_item[1] /\ a \in ack_context_map
                      THEN Append(ack_queue[a], a_item[2])
                      ELSE ack_queue[a]]_vars

\* The handler has taken the ack of a call that timed out and unregistered
\* its queue, while an ack it forwarded waits on the registered queue of
\* another call.
C27_Witness ==
    /\ a_pc = "forward"
    /\ a_item[1] \in AckIds
    /\ a_item[1] \notin ack_context_map
    /\ \E a \in ack_context_map : ack_queue[a] = <<TRUE>>
    /\ \E q \in QueueIds : caller[q].last = "add_context_raised"

\* C28: the stop flag stays set and handle returns False while it is set;
\* after the callback returned False for a message the main loop reads no
\* further message: it leaves the inner loop with that message, and the check
\* after the inner loop and the check at the top of the loop both return.
C28_StopEndsLoop ==
    /\ [][mp_stop_flag => mp_stop_flag']_vars
    /\ [](mp_stop_flag => ~Callback)
    /\ [][(mp_stop_flag /\ k_pc = "callback" /\ k_pc' # k_pc)
          => (k_pc' = "check" /\ k_msg' = k_msg)]_vars
    /\ [][(mp_stop_flag /\ k_pc = "check" /\ k_pc' # k_pc)
          => (k_pc' = "returned" /\ k_res' = "True" /\ k_msg' = k_msg)]_vars
    /\ [][(mp_stop_flag /\ k_pc = "main_loop" /\ k_pc' # k_pc)
          => k_pc' = "returned"]_vars

\* stop() has set the flag, the callback returned False for a frame the loop
\* had read, and the main loop has returned.
C28_Witness ==
    /\ mp_stop_flag
    /\ k_pc = "returned"
    /\ k_why = "stopped"
    /\ k_res = "True"
    /\ k_msg = GoodFrame
    /\ stop_pc > 1

\* C29: after a read error in generate_index(), a pattern found at the current
\* position stops the scan with the index and corrupt_msg_count as they are,
\* a pattern found at a later position moves file_position there and raises
\* corrupt_msg_count by one, and no pattern stops the scan; a scan that
\* stopped indexes nothing more.
C29_Recovery ==
    /\ [][(g_pc = "recover" /\ g_pc' # g_pc)
          => LET next == FindNextHeader(file, file_position)
             IN /\ g_index' = g_index
                /\ IF next = NoHeader \/ next = file_position
                   THEN /\ g_pc' = "done"
                        /\ file_position' = file_position
                        /\ corrupt_msg_count' = corrupt_msg_count
                   ELSE /\ g_pc' = "loop"
                        /\ next > file_position
                        /\ file_position' = next
                        /\ corrupt_msg_count' = corrupt_msg_count + 1]_vars
    /\ [][g_pc = "done" => (g_pc' = "done" /\ g_index' = g_index)]_vars

\* The scan skipped random bytes to the first frame, indexed it, and stopped
\* at a damaged frame that starts with the pattern: the frame behind it is
\* not in the index.
C29_Witness ==
    /\ g_pc = "done"
    /\ corrupt_msg_count = 1
    /\ g_index = <<1>>
    /\ CountFrames(file) = 2
    /\ file_position < Size(file)
    /\ FindNextHeader(file, file_position) = file_position

\* C30: in batch mode the iteration over a file ends; every pass of the loop
\* reads, and a pass either has read frames, moves file_position forward to
\* a later pattern, or ends the iteration; a damaged frame at the end of the
\* file ends it.
C30_BatchTerminates ==
    /\ <>(f_pc \in {"done", "raised"})
    /\ [][(f_pc = "loop" /\ f_pc' # f_pc) => f_pc' = "read"]_vars
    /\ [][(f_pc = "check" /\ f_pc' # f_pc)
          => \/ cached_file_pos < file_position /\ f_pc' = "loop"
             \/ file_position < file_position' /\ f_pc' = "loop"
             \/ f_pc' \in {"done", "raised"}]_vars
    /\ [][(/\ f_pc = "check"
           /\ cached_file_pos = file_position
           /\ file # <<>>
           /\ Last(file).kind = "broken"
           /\ file_position = Offset(file, Len(file)))
          => f_pc' \in {"check", "done", "raised"}]_vars

\* The iteration skipped random bytes, yielded a frame and ended at the
\* damaged frame at the end of the file.
C30_Witness ==
    /\ ~live_run
    /\ f_pc = "done"
    /\ corrupt_msg_count = 1
    /\ yielded = <<1>>
    /\ Last(file).kind = "broken"
    /\ file_position = Offset(file, Len(file))

\* C31: handle() leaves the loop over the filter queue only when the queue is
\* empty, and matches its message against the index as it is then; while the
\* loop runs nothing is enqueued and no other message is taken up.
C31_FiltersBeforeMessage ==
    /\ [][(d_pc = "filters" /\ d_pc' # d_pc)
          => /\ filter_queue = <<>>
             /\ disp_context_map' = disp_context_map
             /\ d_pc' = "dispatch" => d_qids' = Qids(disp_context_map, d_msg)]_vars
    /\ [][d_pc = "filters"
          => (d_msg' = d_msg /\ message_queue' = message_queue)]_vars
    /\ [][n_handled' # n_handled => d_pc = "idle"]_vars

\* The first call of handle() found filter messages of both callers waiting
\* and matches its message against an index that holds both.
C31_Witness ==
    /\ n_handled = 1
    /\ d_pc = "dispatch"
    /\ filter_queue = <<>>
    /\ Len(d_qids) >= 2
    /\ \A q \in QueueIds : InList(d_qids, q)

\* ------------------------- py_dlt_client_main_loop() calling handle()
\* What the main loop's calls of the callback leave alone.
pollFrame == <<cfgVars, context_map, filter_queue, message_queue,
               disp_context_map, dlt_time, c_pc, c_item, c_dropped, sub_queue,
               caller, ackVars, stopVars, fileVars, toolVars, tracefile,
               dumped, connected, bad_messages, k_msg, n_malformed>>

\* The filter messages a caller publishes while the worker polls the socket.
PollMsgs ==
    {MakeSendFilterMsg("q1", << <<"A", None>> >>, add, ack) :
         add \in BOOLEAN, ack \in {None, "a1"}}

\* The frames the daemon sends: one no subscriber asked for, one without ids.
PollMessages == {<<"B", "C", 2>>, <<"", "", 1>>}

\* One delivery of the daemon makes the loop call handle() three times: with
\* None, with the message, and once more after the inner loop.
DataLeft == n_calls + 3 <= CallBudget

\* A callback that returns at once, without entering handle().
EnterHandle_Skip(message, pc) ==
    /\ k_pc' = pc
    /\ UNCHANGED <<pollFrame, handleVars, n_calls, k_res, k_why>>

\* "callback(message)": handle(message) is entered; the loop goes on at pc
\* once it returned.
EnterHandle(message, pc) ==
    /\ d_pc = "idle"
    /\ n_calls' = n_calls + 1
    /\ n_handled' = n_handled + 1
    /\ d_msg' = message
    /\ seen_ts' = IF message = NoneMsg THEN seen_ts
                  ELSE seen_ts \cup {message.storage_timestamp}
    /\ d_pc' = "filters"
    /\ d_qids' = <<>>
    /\ d_enq' = <<>>
    /\ d_wrote' = FALSE
    /\ k_pc' = pc
    /\ UNCHANGED <<pollFrame, k_res, k_why>>

\* ready_to_read(): "recv(1, MSG_PEEK | MSG_DONTWAIT)" returns a byte when
\* data is pending, b"" when the daemon closed the connection, and raises an
\* OSError when nothing is pending.
ReadyToRead(pending) ==
    CASE pending = "data" -> "DLT_RETURN_OK"
      [] pending = "closed" -> "DLT_RETURN_ERROR"
      [] OTHER -> "DLT_RETURN_ERROR"

\* Top of "while True": "if client.ready_to_read() != DLT_RETURN_OK: return
\* False".
PollSocket ==
    /\ k_pc = "main_loop"
    /\ d_pc = "idle"
    /\ \E pending \in {"data", "closed", "nothing"} :
           /\ pending = "data" => DataLeft
           /\ IF ReadyToRead(pending) = "DLT_RETURN_OK"
              THEN /\ k_pc' = "poll"
                   /\ UNCHANGED <<k_res, k_why>>
              ELSE MainLoopReturn("False", pending)
    /\ UNCHANGED <<pollFrame, handleVars, n_calls>>

\* "if callback and not callback(None): return False".
PollCallback ==
    /\ k_pc = "poll"
    /\ EnterHandle(NoneMsg, "receive")

\* handle() returned True; dlt_receiver_receive() and "if recv_size <= 0:
\* return False".
PollReceive ==
    /\ k_pc = "receive"
    /\ d_pc = "idle"
    /\ \E received \in BOOLEAN :
           IF received
           THEN /\ k_pc' = "deliver"
                /\ UNCHANGED <<k_res, k_why>>
           ELSE MainLoopReturn("False", "socket_error")
    /\ UNCHANGED <<pollFrame, handleVars, n_calls>>

\* "while msg": "if callback and not callback(msg): break".
PollMessage ==
    /\ k_pc = "deliver"
    /\ \E message \in MessagesAt(PollMessages) : EnterHandle(message, "after")

\* After the inner loop: "if callback and not callback(msg): break".
PollAfter ==
    /\ k_pc = "after"
    /\ EnterHandle(NoneMsg, "main_loop")

\* The steps of the socket worker and of its dispatcher.
PollSteps ==
    \/ ClientConnect
    \/ PollSocket
    \/ PollCallback
    \/ PollReceive
    \/ PollMessage
    \/ PollAfter
    \/ RunResult
    \/ FilterApply
    \/ FilterAck
    \/ HandleValidate
    \/ HandleTime

\* A running socket worker and a caller that publishes filter messages; the
\* worker is not starved.
InitPoll ==
    /\ InitState
    /\ source = "socket"
    /\ enable_dlt_time = FALSE
    /\ tracefile = FALSE
    /\ live_run = FALSE
    /\ enable_filter_set_ack \in BOOLEAN
    /\ ignore_filter_set_ack_timeout = FALSE
    /\ b_data = <<>>

NextPoll ==
    \/ \E msg \in PollMsgs : FilterQueuePut(msg)
    \/ ClientConnect
    \/ PollSocket
    \/ PollCallback
    \/ PollReceive
    \/ PollMessage
    \/ PollAfter
    \/ RunResult
    \/ FilterApply
    \/ FilterAck
    \/ HandleValidate
    \/ HandleTime

SpecPoll == InitPoll /\ [][NextPoll]_vars /\ WF_vars(PollSteps)

Occurrences(qids, q) == Cardinality({i \in 1..Len(qids) : qids[i] = q})

\* C33 as stated: handle() puts at most one entry (q, message) on the message
\* queue for one message and one subscriber q.
C33_Original == \A q \in QueueIds : Occurrences(d_enq, q) <= 1

\* The entries of one message are as many as the index lists q under the keys
\* the message matches.
EnqueuedPerIndex ==
    d_pc = "idle" /\ IsValidMessage(d_msg)
        => \A q \in QueueIds :
               Occurrences(d_enq, q) = Occurrences(Qids(disp_context_map, d_msg), q)

\* ------------------------------------------------- no empty list in the index
\* The keys of the reverse index that map to an empty list.
EmptyKeys(cm) == {i \in 1..Len(cm) : cm[i].qids = <<>>}

\* _process_filter_queue() is not running: handle() has not called it yet or
\* it has returned.
FilterQueueProcessed == d_pc \notin {"filters", "ack"}

\* C34 as stated: when _process_filter_queue() has returned, every key of the
\* reverse index maps to a non-empty list, whatever adds and removes it
\* processed.
C34_Original == FilterQueueProcessed => EmptyKeys(disp_context_map) = {}

\* A key is never left with an empty list by a message that removes only what
\* the queue id holds: empty lists come from removes of a key that is missing.
EmptyOnlyByMissingRemove ==
    [][(d_pc = "filters" /\ d_pc' = "ack"
        /\ EmptyKeys(disp_context_map) = {}
        /\ EmptyKeys(disp_context_map') # {})
           => /\ ~FilterMsg(Head(filter_queue)).add
              /\ \E i \in 1..Len(FilterMsg(Head(filter_queue)).filters) :
                     ~HasKey(disp_context_map,
                             FilterMsg(Head(filter_queue)).filters[i])]_vars

\* ------------------------- py_dlt_client_main_loop() and its callback
\* The parameter limit: None, or the number of messages to read.
NoLimit == [none |-> TRUE, n |-> 0]
Limit(n) == [none |-> FALSE, n |-> n]
Limits == {NoLimit} \cup {Limit(n) : n \in 1..MaxReads}

\* What the main loop leaves alone when it is called with a callback of the
\* caller's own.
loopFrame == <<cfgVars, handleVars, ackVars, context_map, filter_queue,
               message_queue, disp_context_map, dlt_time, c_pc, c_item,
               c_dropped, sub_queue, caller, n_calls, stopVars, fileVars,
               tracefile, dumped, connected, n_malformed, chk_index,
               chk_counter, chk_result, chk_message, chk_before, b_data,
               b_sort, b_msg, b_out, cmp_msg, cmp_passed, cmp_other,
               cmp_result, d_filter, n_puts, g_pc, g_index,
                st_prev, st_cur>>

\* The callback is called with the message read last: one more call in the
\* log of that message.
Passed(log) == [log EXCEPT ![Len(log)] = @ + 1]

\* After the inner loop, "callback(msg)": msg is the message the loop broke
\* on, or None when the loop ended because no message was left.
AfterLoop(msg, log) == IF msg # NoFrame THEN Passed(log) ELSE log

\* Top of "while True": the bad_messages check, ready_to_read(),
\* callback(None) and dlt_receiver_receive().
LoopTop ==
    /\ k_pc = "main_loop"
    /\ IF bad_messages > BadLimit
       THEN MainLoopReturn("False", "threshold")
       ELSE \E ready \in BOOLEAN, continue \in BOOLEAN, received \in BOOLEAN :
                IF ~ready THEN MainLoopReturn("False", "closed")
                ELSE IF ~continue THEN MainLoopReturn("False", "stopped")
                ELSE IF ~received THEN MainLoopReturn("False", "socket_error")
                ELSE /\ k_pc' = "read"
                     /\ UNCHANGED <<k_res, k_why>>
    /\ UNCHANGED <<loopFrame, bad_messages, k_msg, k_log, k_limit>>

\* "msg = client.read_message()"; without a message the else of "while msg"
\* rewinds the receiver buffer.
LoopRead ==
    /\ k_pc = "read"
    /\ \E msg \in SocketFrames \cup {NoFrame}, rewound \in BOOLEAN :
           /\ msg # NoFrame => Len(k_log) < MaxReads
           /\ k_msg' = msg
           /\ k_log' = IF msg # NoFrame THEN Append(k_log, 0) ELSE k_log
           /\ IF msg # NoFrame
              THEN /\ k_pc' = "message"
                   /\ UNCHANGED <<k_res, k_why>>
              ELSE IF rewound
                   THEN /\ k_pc' = "check"
                        /\ UNCHANGED <<k_res, k_why>>
                   ELSE MainLoopReturn("False", "rewind_failed")
    /\ UNCHANGED <<loopFrame, bad_messages, k_limit>>

\* The body of "while msg" up to the callback: the id test with its except
\* branch (which reads on without the callback), "bad_messages = 0" and
\* dlt_receiver_remove().
LoopBody ==
    /\ k_pc = "message"
    /\ IF Raises(k_msg)
       THEN /\ bad_messages' = bad_messages + 1
            /\ k_log' = [k_log EXCEPT ![Len(k_log)] = -1]
            /\ k_pc' = "read"
            /\ UNCHANGED <<k_res, k_why>>
       ELSE /\ bad_messages' = AfterReset(AfterIdTest(k_msg, bad_messages))
            /\ k_log' = k_log
            /\ \E removed \in BOOLEAN :
                   IF removed
                   THEN /\ k_pc' = "callback"
                        /\ UNCHANGED <<k_res, k_why>>
                   ELSE MainLoopReturn("False", "remove_failed")
    /\ UNCHANGED <<loopFrame, k_msg, k_limit>>

\* "if callback and not callback(msg): break", then "limit -= 1; if limit ==
\* 0: break", else the next read.
LoopCallback ==
    /\ k_pc = "callback"
    /\ k_log' = Passed(k_log)
    /\ \E continue \in BOOLEAN :
           IF ~continue
           THEN /\ k_pc' = "check"
                /\ k_limit' = k_limit
           ELSE /\ k_limit' = IF k_limit.none THEN k_limit
                              ELSE Limit(k_limit.n - 1)
                /\ k_pc' = IF ~k_limit.none /\ k_limit.n - 1 = 0
                           THEN "check" ELSE "read"
    /\ UNCHANGED <<loopFrame, bad_messages, k_msg, k_res, k_why>>

\* After the inner loop: "if callback and not callback(msg): break" and
\* "return True".
LoopAfter ==
    /\ k_pc = "check"
    /\ k_log' = AfterLoop(k_msg, k_log)
    /\ \E continue \in BOOLEAN :
           IF continue
           THEN /\ k_pc' = "main_loop"
                /\ UNCHANGED <<k_res, k_why>>
           ELSE MainLoopReturn("True", "stopped")
    /\ UNCHANGED <<loopFrame, bad_messages, k_msg, k_limit>>

\* py_dlt_client_main_loop(client, limit, callback) on a connected client,
\* with a callback that returns what it likes.
InitLoop ==
    /\ InitState
    /\ source = "socket"
    /\ enable_dlt_time = FALSE
    /\ enable_filter_set_ack = FALSE
    /\ ignore_filter_set_ack_timeout = FALSE
    /\ tracefile = FALSE
    /\ live_run = FALSE
    /\ b_data = <<>>

\* The call of the main loop with its limit.
LoopCall ==
    /\ k_pc = "run"
    /\ k_pc' = "main_loop"
    /\ k_limit' \in Limits
    /\ UNCHANGED <<loopFrame, bad_messages, k_msg, k_res, k_why, k_log>>

NextLoop ==
    \/ LoopCall
    \/ LoopTop
    \/ LoopRead
    \/ LoopBody
    \/ LoopCallback
    \/ LoopAfter

SpecLoop == InitLoop /\ [][NextLoop]_vars

\* C35 as stated: every message read is passed to the callback exactly once:
\* never twice, and once when the loop has gone on to the next message (a
\* message whose ids cannot be read is skipped).
C35_Original ==
    \A i \in 1..Len(k_log) :
        /\ k_log[i] <= 1
        /\ i < Len(k_log) => k_log[i] \in {-1, 1}

\* A message is passed at most twice, and a second time only by the call
\* after the inner loop.
TwiceOnlyAfterLoop ==
    [][\A i \in 1..Len(k_log) :
           /\ k_log'[i] <= 2
           /\ (k_log'[i] = 2 /\ k_log[i] # 2) => k_pc = "check"]_vars

\* ------------------------------------------------- unregister and the index
\* The keys of the reverse index whose list holds queue id q.
KeysOf(cm, q) == {i \in 1..Len(cm) : InList(cm[i].qids, q)}

\* C36 as stated: when the dispatcher has processed the remove message that
\* unregister(q) published, no key of the reverse index holds q's id,
\* whatever register and unregister calls came before.
C36_Original ==
    [][\A q \in QueueIds :
           (/\ d_pc = "filters"
            /\ filter_queue # <<>>
            /\ filter_queue' = Tail(filter_queue)
            /\ ~FilterMsg(Head(filter_queue)).add
            /\ FilterMsg(Head(filter_queue)).queue_id = q)
               => KeysOf(disp_context_map', q) = {}]_vars

\* ------------------------------------------------- stop() and a full queue
\* A subscriber queue the caller made with a maxsize: put() returns when the
\* queue has room.
BoundedPutReady(queue) == ~QueueFull(queue)

\* DLTContextHandler.run(): "while not self.stop_flag.is_set()" and the get
\* of one pass.
RunLoopGet ==
    /\ ~stop_flag["context"]
    /\ RunGet

\* DLTContextHandler.run(): "queue.put(message)" on a bounded subscriber
\* queue, a put without timeout.
RunPutBounded ==
    /\ c_pc = "put"
    /\ BoundedPutReady(sub_queue[c_item[1]])
    /\ RunPut

\* The subscriber of the runs with stop(), and what the source sends.
ShutdownFilters == Filters(<< <<"A", None>>, <<None, "C">> >>)
ShutdownMessages == {<<"A", "C", 1>>}

\* The steps of stop() on a broker without filter acks.
StopSteps ==
    \/ BreakBlockingMainLoop
    \/ SetStopFlag
    \/ ContextHandlerStop
    \/ ContextHandlerJoin
    \/ MsgHandlerEnd

\* The steps of the context handler thread whose subscriber queue is bounded.
BoundedContextHandlerSteps ==
    \/ RunLoopGet
    \/ RunPutBounded
    \/ ContextHandlerExit

\* The steps of the dispatcher process until it ends.
RunningDispatcherSteps ==
    \/ (~mp_stop_flag /\ DispatcherSteps(ShutdownMessages))
    \/ MsgHandlerExit

\* A started broker (without filter acks, so without ack handler) with one
\* subscriber whose bounded queue nobody reads, and stop() called at any
\* moment; no thread is starved.
InitShutdown ==
    /\ InitState
    /\ source = "socket"
    /\ enable_dlt_time = FALSE
    /\ tracefile = FALSE
    /\ live_run = TRUE
    /\ enable_filter_set_ack = FALSE
    /\ ignore_filter_set_ack_timeout = FALSE
    /\ b_data = <<>>

NextShutdown ==
    \/ (stop_pc = 0 /\ RegisterInsert("q1", ShutdownFilters))
    \/ RegisterPut("q1")
    \/ StopCall
    \/ StopSteps
    \/ BoundedContextHandlerSteps
    \/ RunningDispatcherSteps

SpecShutdown ==
    /\ InitShutdown
    /\ [][NextShutdown]_vars
    /\ WF_vars(StopSteps)
    /\ WF_vars(BoundedContextHandlerSteps)
    /\ WF_vars(RunningDispatcherSteps)

\* stop() has returned.
StopReturned == stop_pc > Len(StopOrder(enable_filter_set_ack))

\* C37 as stated: a stop() that was called returns, and then no worker is
\* alive, also when the context handler delivers to a bounded subscriber queue
\* that is full and never read.
C37_Original ==
    /\ (stop_pc = 1) ~> StopReturned
    /\ [](StopReturned => (~ContextHandlerAlive /\ ~MsgHandlerAlive))

\* A stop() that does not return is one that waits for the context handler,
\* which is inside put() on the full queue.
StopHangsOnlyOnFullQueue ==
    (stop_pc = 1)
        ~> (\/ StopReturned
            \/ /\ StopAt("context_handler.join")
               /\ c_pc = "put"
               /\ QueueFull(sub_queue[c_item[1]]))

\* ------------------------------------------------- add_context without ack
\* C38: when add_context() leaves its "with" block, whatever the wait for the
\* ack gave (the ack, a wrong or missing ack, or queue.Empty raised), the
\* subscriber's entry stays in the context handler's map with the filters
\* registered, nothing is put on the filter queue to undo the add message,
\* and the private ack queue is unregistered from the ack handler.
C38_NoRollback ==
    [][\A q \in QueueIds :
           (caller[q].pc = "ack_exit" /\ caller'[q].pc = "idle")
               => /\ context_map'[q] = Entry(caller[q].filters)
                  /\ context_map' = context_map
                  /\ filter_queue' = filter_queue
                  /\ disp_context_map' = disp_context_map
                  /\ caller[q].ack \in ack_context_map
                  /\ caller[q].ack \notin ack_context_map']_vars

\* An add_context() raised queue.Empty; the subscriber is still registered,
\* the dispatcher has applied its add message since, and no ack queue is
\* left registered.
C38_Witness ==
    \E q \in QueueIds :
        /\ caller[q].pc = "idle"
        /\ caller[q].last = "add_context_raised"
        /\ context_map[q].present
        /\ InList(QueueIdsOf(disp_context_map, <<"A", "C">>), q)
        /\ ack_context_map = {}

\* ------------------------------------------------- DLTMessage.storage_timestamp
\* The number of characters of "{}".format(n) for an n >= 0.
RECURSIVE Digits(_)
Digits(n) == IF n < 10 THEN 1 ELSE 1 + Digits(n \div 10)

RECURSIVE Pow10(_)
Pow10(d) == IF d = 0 THEN 1 ELSE 10 * Pow10(d - 1)

\* seconds + microseconds / 1,000,000 as a fraction.
SecondsAndMicroseconds(seconds, microseconds) ==
    [num |-> seconds * Pow10(6) + microseconds, den |-> Pow10(6)]

\* storage_timestamp: float("{}.{}".format(seconds, microseconds)): the
\* digits of microseconds, as many as they are, become the fraction.  The
\* value is the fraction num / den.
StorageTimestamp(seconds, microseconds) ==
    [num |-> seconds * Pow10(Digits(microseconds)) + microseconds,
     den |-> Pow10(Digits(microseconds))]

\* a < b and a = b for timestamps.
TsLess(a, b) == a.num * b.den < b.num * a.den
TsEqual(a, b) == a.num * b.den = b.num * a.den

\* The storage headers read.
StorageHeaders ==
    {[seconds |-> s, microseconds |-> u] : s \in 0..MaxSeconds, u \in 0..MaxMicro}

\* What reading the property storage_timestamp leaves alone.
stampFrame == <<cfgVars, handleVars, ackVars, context_map, filter_queue,
                message_queue, disp_context_map, dlt_time, c_pc, c_item,
                c_dropped, sub_queue, caller, n_calls, stopVars, sockVars,
                fileVars, chk_index, chk_counter, chk_result, chk_message,
                chk_before, b_data, b_sort, b_msg, b_out, cmp_msg, cmp_passed,
                cmp_other, cmp_result, d_filter, n_puts, g_pc, g_index, k_log,
                k_limit>>

\* msg.storage_timestamp is read for a message with the header given.
StorageTimestampRead(header) ==
    /\ st_prev' = st_cur
    /\ st_cur' = [set |-> TRUE, seconds |-> header.seconds,
                  microseconds |-> header.microseconds,
                  num |-> StorageTimestamp(header.seconds, header.microseconds).num,
                  den |-> StorageTimestamp(header.seconds, header.microseconds).den]
    /\ UNCHANGED stampFrame

\* The storage timestamps of messages read one after the other.
InitStamp ==
    /\ InitState
    /\ source = "file"
    /\ enable_dlt_time = FALSE
    /\ enable_filter_set_ack = FALSE
    /\ ignore_filter_set_ack_timeout = FALSE
    /\ tracefile = FALSE
    /\ live_run = FALSE
    /\ b_data = <<>>

NextStamp == \E header \in StorageHeaders : StorageTimestampRead(header)

SpecStamp == InitStamp /\ [][NextStamp]_vars

\* C39 as stated: storage_timestamp is seconds + microseconds / 1,000,000,
\* so of two messages with equal seconds the one with the larger
\* microseconds has the larger storage_timestamp.
C39_Original ==
    /\ st_cur.set
         => TsEqual(st_cur, SecondsAndMicroseconds(st_cur.seconds,
                                                   st_cur.microseconds))
    /\ (st_prev.set /\ st_cur.set /\ st_prev.seconds = st_cur.seconds
        /\ st_prev.microseconds < st_cur.microseconds)
         => TsLess(st_prev, st_cur)

\* The order of the microseconds is kept between values written with the
\* same number of digits.
OrderedWithinDigits ==
    (st_prev.set /\ st_cur.set /\ st_prev.seconds = st_cur.seconds
     /\ st_prev.microseconds < st_cur.microseconds
     /\ Digits(st_prev.microseconds) = Digits(st_cur.microseconds))
        => TsLess(st_prev, st_cur)

\* ------------------------------------------------- _find_next_header
\* The offsets at or after pos at which the file holds the pattern.
PatternOffsets(segments, pos) ==
    {Offset(segments, i) : i \in {j \in 1..Len(segments) :
                                     /\ segments[j].kind \in {"frame", "broken"}
                                     /\ Offset(segments, j) >= pos}}

\* The offset of the first pattern at or after pos, or the position of EOF.
FirstPatternOrEOF(segments, pos) ==
    IF PatternOffsets(segments, pos) = {} THEN Size(segments)
    ELSE CHOOSE m \in PatternOffsets(segments, pos) :
             \A n \in PatternOffsets(segments, pos) : m <= n

\* C40 as stated: _find_next_header() returns the offset of the first
\* pattern at or after the file position, wherever it lies in the chunks
\* read, and the position of EOF when there is none.
C40_Original ==
    [][(g_pc = "recover" /\ g_pc' # g_pc)
         => FindNextHeader(file, file_position)
              = FirstPatternOrEOF(file, file_position)]_vars

\* What _find_next_header() returns is the first pattern when that lies
\* within one chunk read, a later pattern or None when it lies across two,
\* and None when there is no pattern.
FirstPatternWithinChunk ==
    [][(g_pc = "recover" /\ g_pc' # g_pc)
         => LET first == FirstPatternOrEOF(file, file_position)
                found == FindNextHeader(file, file_position)
            IN /\ (PatternOffsets(file, file_position) # {}
                   /\ InOneChunk(file_position, first)) => found = first
               /\ PatternOffsets(file, file_position) = {} => found = NoHeader
               /\ found # NoHeader
                    => found \in PatternOffsets(file, file_position)]_vars

====
